---- MODULE Spec2Model ----
(***************************************************************************)
(* Model of googleSheetsLib: the credential session and the retrying       *)
(* executor of ClientWrapper (src/src/googleSheetsLib/client.py), the      *)
(* Response envelope (src/src/googleSheetsLib/models.py), the range        *)
(* functions of src/src/utils.py and the operations of a Sheet             *)
(* (src/src/googleSheetsLib/core.py).                                      *)
(***************************************************************************)
EXTENDS Integers, Sequences, FiniteSets, TLC

(* ------------------------------------------------------------------ *)
(* Bounds of the model                                                 *)
(* ------------------------------------------------------------------ *)
\* largest max_retries a caller passes to execute
MaxRetries == 3
\* number of distinct payloads the remote call can return
NumPayloads == 2

(* ------------------------------------------------------------------ *)
(* Optional values: Python's None is the empty tuple, a present value  *)
(* v is the one-element tuple <<v>>.                                   *)
(* ------------------------------------------------------------------ *)
None == << >>
Some(v) == << v >>
Truthy(o) == o # None
Opt(S) == {None} \cup {Some(v) : v \in S}

(* ------------------------------------------------------------------ *)
(* models.py: SheetsError and Response                                 *)
(* ------------------------------------------------------------------ *)
SheetsError(message, code, function_name, details) ==
    [message |-> message, code |-> code, reason |-> None,
     function_name |-> function_name, details |-> details]

Response_success(data, details) ==
    [ok |-> TRUE, data |-> data, error |-> None, details |-> details]

Response_fail(message, code, function_name, details) ==
    [ok |-> FALSE, data |-> None,
     error |-> Some(SheetsError(message, code, function_name, details)),
     details |-> None]

(* ------------------------------------------------------------------ *)
(* The remote call: request.execute() either returns a payload, raises *)
(* HttpError carrying resp.status, or raises any other exception.      *)
(* ------------------------------------------------------------------ *)
Payloads == 1 .. NumPayloads
\* the list of client.py line 110
RetryStatuses == {429, 500, 502, 503, 504}
\* remote-reported statuses outside that list
OtherStatuses == {400, 404}
Statuses == RetryStatuses \cup OtherStatuses

Returned(p) == [kind |-> "return", payload |-> p, status |-> 0]
HttpError(s) == [kind |-> "HttpError", payload |-> 0, status |-> s]
OtherException == [kind |-> "Exception", payload |-> 0, status |-> 0]
Outcomes == {Returned(p) : p \in Payloads} \cup {HttpError(s) : s \in Statuses}
            \cup {OtherException}
\* one outcome of each class, for runs that are about the credential
SessionOutcomes == {Returned(1), HttpError(503), HttpError(404), OtherException}
\* what the remote call will do at its 1st, 2nd, ... invocation
Scripts(O) == [1 .. MaxRetries -> O]

(* ------------------------------------------------------------------ *)
(* Credentials: what the code reads of a google.oauth2 credential      *)
(* ------------------------------------------------------------------ *)
Cred == {c \in [valid : BOOLEAN, expired : BOOLEAN, refresh_token : BOOLEAN] :
            ~(c.valid /\ c.expired)}
FreshCred(rt) == [valid |-> TRUE, expired |-> FALSE, refresh_token |-> rt]

\* thread 0 is the constructor, the others are callers of execute
Callers == {1, 2}
\* the caller of a session that is used from one thread only
SingleCaller == {1}
Threads == {0} \cup Callers

VARIABLES
    token_dict,        \* self.token_dict: credential of GOOGLE_SERVICE_TOKEN, or None
    creds_dict,        \* self.creds_dict: TRUE when GOOGLE_SERVICE_CREDS was parsed
    token_path,        \* self.token_path is a non-empty string
    token_file,        \* the credential stored in the file at token_path, or None
    creds,             \* self.creds
    pc,                \* position of each thread
    refresh_calls,     \* creds.refresh() calls made by the thread's current operation
    login_flows,       \* run_local_server() flows run by the thread's current operation
    persist_attempts,  \* attempts to write the token file by the current operation
    persist_errors,    \* of these, the attempts that raised (client.py 84)
    auth_error,        \* creds.refresh() or the login flow raised in the current operation
    max_retries,       \* argument of the caller's execute
    attempt,           \* loop variable of execute
    script,            \* what request.execute() does at its 1st, 2nd, ... invocation
    invocations,       \* number of request.execute() calls made by this execute
    sleeps,            \* arguments of time.sleep() in this execute, in order
    result,            \* what execute returned: None, or Some(Response)
    util_fn,           \* the function of utils.py that was applied, or "none"
    util_type,         \* type(argument).__name__: "str", "int", "dict" or "NoneType"
    util_arg,          \* its argument
    util_ret,          \* what it returned, or None while it has not been applied
    batch_requests,    \* Spreadsheet.batch_requests, the queue of prepared requests
    sheet_call,        \* the last Sheet operation called and its arguments, or None
    sheet_response,    \* the Response it returned, or None
    sheet_raised,      \* TRUE when an exception left the operation instead
    remote_calls,      \* request.execute() invocations made by that operation
    batch_body,        \* 'requests' of the batchUpdate request it built, or None
    spreadsheet,       \* name, locale, timezone, last_refreshed, sheets_info of the Spreadsheet
    sheet,             \* name, id, row_count, column_count of a Sheet, or None
    meta_ret           \* what refresh_metadata returned, or None

envVars == <<token_dict, creds_dict, token_path, token_file>>
authVars == <<refresh_calls, login_flows, persist_attempts, persist_errors, auth_error>>
callVars == <<max_retries, attempt, script, invocations, sleeps, result>>
vars == <<token_dict, creds_dict, token_path, token_file, creds, pc,
          refresh_calls, login_flows, persist_attempts, persist_errors, auth_error,
          max_retries, attempt, script, invocations, sleeps, result,
          util_fn, util_type, util_arg, util_ret,
          batch_requests, sheet_call, sheet_response, sheet_raised, remote_calls,
          batch_body, spreadsheet, sheet, meta_ret>>
utilVars == <<util_fn, util_type, util_arg, util_ret>>
metaVars == <<spreadsheet, sheet, meta_ret>>
sheetVars == <<batch_requests, sheet_call, sheet_response, sheet_raised, remote_calls,
               batch_body, metaVars>>
clientVars == <<envVars, creds, pc, authVars, callVars>>

\* no function of utils.py has been applied
UtilIdle ==
    /\ util_fn = "none"
    /\ util_type = "NoneType"
    /\ util_arg = None
    /\ util_ret = None

\* core.py 84-90: the attributes of a Spreadsheet before its metadata is built
\* (last_refreshed counts the readings of the clock; 0 is the date of line 90)
NoMetadata ==
    [name |-> "", locale |-> "", timezone |-> "", last_refreshed |-> 0,
     sheets_info |-> << >>]
\* no Sheet was made and no metadata operation called
MetaIdle ==
    /\ spreadsheet = NoMetadata
    /\ sheet = None
    /\ meta_ret = None
\* no Sheet operation called yet
NoSheetCall ==
    /\ sheet_call = None
    /\ sheet_response = None
    /\ sheet_raised = FALSE
    /\ remote_calls = 0
    /\ batch_body = None
\* a Spreadsheet with an empty queue, no Sheet operation called yet
SheetIdle ==
    /\ batch_requests = << >>
    /\ NoSheetCall
    /\ MetaIdle

TypeOK ==
    /\ token_dict \in Opt(Cred)
    /\ creds_dict \in BOOLEAN
    /\ token_path \in BOOLEAN
    /\ token_file \in Opt(Cred)
    /\ creds \in Opt(Cred)
    /\ pc \in [Threads -> {"new", "idle", "auth", "refresh_or_login", "refresh",
                           "login_config", "login_file", "loop", "built",
                           "done", "raised"}]
    /\ refresh_calls \in [Threads -> Nat]
    /\ login_flows \in [Threads -> Nat]
    /\ persist_attempts \in [Threads -> Nat]
    /\ persist_errors \in [Threads -> Nat]
    /\ auth_error \in [Threads -> BOOLEAN]
    /\ max_retries \in [Callers -> 0 .. MaxRetries]
    /\ attempt \in [Callers -> 0 .. MaxRetries]
    /\ \A c \in Callers : script[c] = << >> \/ script[c] \in Scripts(Outcomes)
    /\ invocations \in [Callers -> 0 .. MaxRetries]
    /\ sleeps \in [Callers -> Seq(Nat)]
    /\ \A c \in Callers : result[c] = None \/ result[c][1].ok \in BOOLEAN
    /\ util_fn \in {"none", "column_to_number", "number_to_column",
                   "number_to_column(column_to_number)",
                   "column_to_number(number_to_column)",
                   "validate_xrange", "xrange_to_grid_range",
                   "validate_grid_range", "grid_range_to_xrange",
                   "grid_range_to_xrange(xrange_to_grid_range)"}
    /\ util_type \in {"NoneType", "str", "int", "dict"}
    /\ \A i \in 1 .. Len(batch_requests) :
          batch_requests[i].kind \in {"autoFill", "deleteDimension"}
    /\ sheet_response = None \/ sheet_response[1].ok \in BOOLEAN
    /\ sheet_raised \in BOOLEAN
    /\ remote_calls \in Nat
    /\ batch_body = None \/ Len(batch_body) = 1
    /\ spreadsheet.last_refreshed \in Nat
    /\ sheet = None \/ Len(sheet) = 1
    /\ meta_ret \in {None, Some(TRUE), Some(FALSE)}

(* ------------------------------------------------------------------ *)
(* Init: __init__ has read the environment (client.py 25-52) and is    *)
(* about to call _authenticate.                                        *)
(* ------------------------------------------------------------------ *)
Init ==
    /\ token_dict \in Opt(Cred)
    /\ creds_dict \in BOOLEAN
    /\ token_path \in BOOLEAN
    /\ token_file \in Opt(Cred)
    /\ creds = None
    /\ pc = [t \in Threads |-> IF t = 0 THEN "new" ELSE "idle"]
    /\ refresh_calls = [t \in Threads |-> 0]
    /\ login_flows = [t \in Threads |-> 0]
    /\ persist_attempts = [t \in Threads |-> 0]
    /\ persist_errors = [t \in Threads |-> 0]
    /\ auth_error = [t \in Threads |-> FALSE]
    /\ max_retries = [c \in Callers |-> 0]
    /\ attempt = [c \in Callers |-> 0]
    /\ script = [c \in Callers |-> << >>]
    /\ invocations = [c \in Callers |-> 0]
    /\ sleeps = [c \in Callers |-> << >>]
    /\ result = [c \in Callers |-> None]
    /\ UtilIdle
    /\ SheetIdle

(* ------------------------------------------------------------------ *)
(* ClientWrapper._authenticate (client.py 56-66)                       *)
(* ------------------------------------------------------------------ *)
LoadedCreds ==
    IF Truthy(token_dict) THEN token_dict
    ELSE IF Truthy(token_file) THEN token_file
    ELSE None

\* client.py 63: not self.creds or not self.creds.valid
NeedsLogin_OnlyAbsent(cr) == ~Truthy(cr)

NeedsLogin(cr) == ~Truthy(cr) \/ ~cr[1].valid

Authenticate ==
    /\ pc[0] = "new"
    /\ creds' = LoadedCreds
    /\ pc' = [pc EXCEPT ![0] = IF NeedsLogin(LoadedCreds) THEN "refresh_or_login"
                                ELSE "built"]
    /\ UNCHANGED <<envVars, authVars, callVars>>
    /\ UNCHANGED <<utilVars, sheetVars>>

(* ------------------------------------------------------------------ *)
(* ClientWrapper._refresh_or_login (client.py 68-85), run by thread t  *)
(* ------------------------------------------------------------------ *)
\* client.py 70: self.creds and self.creds.expired and self.creds.refresh_token
CanRefresh(cr) == Truthy(cr) /\ cr[1].expired /\ cr[1].refresh_token

\* where the thread goes on when _refresh_or_login returns
AfterLogin(t) == IF t = 0 THEN "built" ELSE "loop"

\* client.py 70-75: the branch of _refresh_or_login that the thread takes
Branch(cr, cd) ==
    IF CanRefresh(cr) THEN "refresh"
    ELSE IF cd THEN "login_config"
    ELSE "login_file"

RefreshOrLogin(t) ==
    /\ pc[t] = "refresh_or_login"
    /\ pc' = [pc EXCEPT ![t] = Branch(creds, creds_dict)]
    /\ UNCHANGED <<envVars, creds, authVars, callVars>>
    /\ UNCHANGED <<utilVars, sheetVars>>

\* client.py 71: creds.refresh(Request()) renews the credential in place or raises
Refresh(t) ==
    /\ pc[t] = "refresh"
    /\ refresh_calls' = [refresh_calls EXCEPT ![t] = @ + 1]
    /\ \/ /\ creds' = Some([creds[1] EXCEPT !.valid = TRUE, !.expired = FALSE])
          /\ pc' = [pc EXCEPT ![t] = AfterLogin(t)]
          /\ UNCHANGED auth_error
       \/ /\ creds' = creds
          /\ pc' = [pc EXCEPT ![t] = "raised"]
          /\ auth_error' = [auth_error EXCEPT ![t] = TRUE]
    /\ UNCHANGED <<envVars, login_flows, persist_attempts, persist_errors, callVars>>
    /\ UNCHANGED <<utilVars, sheetVars>>

\* client.py 72-74: flow from the client configuration of the environment
LoginFromConfig(t) ==
    /\ pc[t] = "login_config"
    /\ login_flows' = [login_flows EXCEPT ![t] = @ + 1]
    /\ \/ /\ \E rt \in BOOLEAN : creds' = Some(FreshCred(rt))
          /\ pc' = [pc EXCEPT ![t] = AfterLogin(t)]
          /\ UNCHANGED auth_error
       \/ /\ creds' = creds
          /\ pc' = [pc EXCEPT ![t] = "raised"]
          /\ auth_error' = [auth_error EXCEPT ![t] = TRUE]
    /\ UNCHANGED <<envVars, refresh_calls, persist_attempts, persist_errors, callVars>>
    /\ UNCHANGED <<utilVars, sheetVars>>

\* client.py 84-85: the exception of the write is caught and printed
AfterPersistError_Raise(t) == "raised"

AfterPersistError(t) == AfterLogin(t)

\* client.py 75-85: flow from the client-secrets file, then the token file is written
LoginFromFile(t) ==
    /\ pc[t] = "login_file"
    /\ login_flows' = [login_flows EXCEPT ![t] = @ + 1]
    /\ \/ /\ \E rt \in BOOLEAN : creds' = Some(FreshCred(rt))
          /\ UNCHANGED auth_error
          /\ IF token_path
             THEN /\ persist_attempts' = [persist_attempts EXCEPT ![t] = @ + 1]
                  /\ \/ /\ token_file' = creds'
                        /\ pc' = [pc EXCEPT ![t] = AfterLogin(t)]
                        /\ UNCHANGED persist_errors
                     \/ /\ token_file' = token_file
                        /\ pc' = [pc EXCEPT ![t] = AfterPersistError(t)]
                        /\ persist_errors' = [persist_errors EXCEPT ![t] = @ + 1]
             ELSE /\ pc' = [pc EXCEPT ![t] = AfterLogin(t)]
                  /\ UNCHANGED <<persist_attempts, persist_errors, token_file>>
       \/ /\ creds' = creds
          /\ pc' = [pc EXCEPT ![t] = "raised"]
          /\ auth_error' = [auth_error EXCEPT ![t] = TRUE]
          /\ UNCHANGED <<persist_attempts, persist_errors, token_file>>
    /\ UNCHANGED <<token_dict, creds_dict, token_path, refresh_calls, callVars>>
    /\ UNCHANGED <<utilVars, sheetVars>>

(* ------------------------------------------------------------------ *)
(* The expiry instant of the credential in use passes: creds.valid     *)
(* turns False and creds.expired True between two steps of a built     *)
(* session.                                                            *)
(* ------------------------------------------------------------------ *)
Expire ==
    /\ pc[0] = "built"
    /\ Truthy(creds)
    /\ creds[1].valid
    /\ creds' = Some([creds[1] EXCEPT !.valid = FALSE, !.expired = TRUE])
    /\ UNCHANGED <<envVars, pc, authVars, callVars>>
    /\ UNCHANGED <<utilVars, sheetVars>>

(* ------------------------------------------------------------------ *)
(* ClientWrapper.execute (client.py 98-115), run by caller c           *)
(* ------------------------------------------------------------------ *)
\* client.py 100: the first statement of execute is the pre-flight check
FirstStatement_Loop == "loop"

FirstStatement == "auth"

\* execute(request, max_retries = n) is called; the request will behave as sc
Call(c, O) ==
    /\ pc[0] = "built"
    /\ pc[c] = "idle"
    /\ \E n \in 0 .. MaxRetries : max_retries' = [max_retries EXCEPT ![c] = n]
    /\ \E sc \in Scripts(O) : script' = [script EXCEPT ![c] = sc]
    /\ pc' = [pc EXCEPT ![c] = FirstStatement]
    /\ UNCHANGED <<envVars, creds, authVars, attempt, invocations, sleeps, result>>
    /\ UNCHANGED <<utilVars, sheetVars>>

\* client.py 89-94: the pre-flight check calls _refresh_or_login
NeedsRefresh_IgnoreValid(cr) == Truthy(cr) /\ cr[1].refresh_token

NeedsRefresh(cr) ==
    /\ Truthy(cr)
    /\ ~cr[1].valid
    /\ cr[1].expired /\ cr[1].refresh_token

\* ClientWrapper._ensure_valid_auth (client.py 87-94)
EnsureValidAuth(c) ==
    /\ pc[c] = "auth"
    /\ pc' = [pc EXCEPT ![c] = IF NeedsRefresh(creds) THEN "refresh_or_login"
                                ELSE "loop"]
    /\ UNCHANGED <<envVars, creds, authVars, callVars>>
    /\ UNCHANGED <<utilVars, sheetVars>>

\* client.py 102: for attempt in range(max_retries)
InRange_Inclusive(att, n) == att <= n

InRange(att, n) == att < n

\* client.py 110: the status is retried and attempts remain
ShouldRetry_OneFewer(status, att, n) == status \in RetryStatuses /\ att < n - 2

ShouldRetry_AnyStatus(status, att, n) == att < n - 1

ShouldRetry(status, att, n) == status \in RetryStatuses /\ att < n - 1

\* client.py 111: time.sleep(2 ** attempt)
Backoff_OneBased(att) == 2 ^ (att + 1)

Backoff(att) == 2 ^ att

\* client.py 103-115: what one iteration does with the outcome of request.execute()
Disposition_RetryException(o, att, n) ==
    CASE o.kind = "return" -> "success"
      [] o.kind = "HttpError" /\ ShouldRetry(o.status, att, n) -> "retry"
      [] o.kind = "HttpError" /\ ~ShouldRetry(o.status, att, n) -> "fail"
      [] o.kind = "Exception" /\ att < n - 1 -> "retry"
      [] o.kind = "Exception" /\ ~(att < n - 1) -> "unexpected"

Disposition(o, att, n) ==
    CASE o.kind = "return" -> "success"
      [] o.kind = "HttpError" /\ ShouldRetry(o.status, att, n) -> "retry"
      [] o.kind = "HttpError" /\ ~ShouldRetry(o.status, att, n) -> "fail"
      [] o.kind = "Exception" -> "unexpected"

\* client.py 107, 113, 115: the envelope an iteration returns
Envelope(o, d) ==
    CASE d = "success" -> Response_success(Some(o.payload), None)
      [] d = "fail" -> Response_fail("HttpError", Some(o.status), None, None)
      [] d = "unexpected" -> Response_fail("Erro inesperado", None, None, None)

\* one iteration of the loop of client.py 102-115
Attempt(c) ==
    /\ pc[c] = "loop"
    /\ InRange(attempt[c], max_retries[c])
    /\ invocations' = [invocations EXCEPT ![c] = @ + 1]
    /\ LET o == script[c][invocations[c] + 1]
           d == Disposition(o, attempt[c], max_retries[c])
       IN IF d = "retry"
          THEN /\ sleeps' = [sleeps EXCEPT ![c] = Append(@, Backoff(attempt[c]))]
               /\ attempt' = [attempt EXCEPT ![c] = @ + 1]
               /\ UNCHANGED <<pc, result>>
          ELSE /\ result' = [result EXCEPT ![c] = Some(Envelope(o, d))]
               /\ pc' = [pc EXCEPT ![c] = "done"]
               /\ UNCHANGED <<attempt, sleeps>>
    /\ UNCHANGED <<envVars, creds, authVars, max_retries, script>>
    /\ UNCHANGED <<utilVars, sheetVars>>

\* range(max_retries) is exhausted: the function ends without a return statement
LoopExhausted(c) ==
    /\ pc[c] = "loop"
    /\ ~InRange(attempt[c], max_retries[c])
    /\ result' = [result EXCEPT ![c] = None]
    /\ pc' = [pc EXCEPT ![c] = "done"]
    /\ UNCHANGED <<envVars, creds, authVars, max_retries, attempt, script,
                   invocations, sleeps>>
    /\ UNCHANGED <<utilVars, sheetVars>>

\* the caller has taken the result (or the exception) and may call again
Return(c) ==
    /\ pc[c] \in {"done", "raised"}
    /\ pc' = [pc EXCEPT ![c] = "idle"]
    /\ refresh_calls' = [refresh_calls EXCEPT ![c] = 0]
    /\ login_flows' = [login_flows EXCEPT ![c] = 0]
    /\ persist_attempts' = [persist_attempts EXCEPT ![c] = 0]
    /\ persist_errors' = [persist_errors EXCEPT ![c] = 0]
    /\ auth_error' = [auth_error EXCEPT ![c] = FALSE]
    /\ max_retries' = [max_retries EXCEPT ![c] = 0]
    /\ attempt' = [attempt EXCEPT ![c] = 0]
    /\ script' = [script EXCEPT ![c] = << >>]
    /\ invocations' = [invocations EXCEPT ![c] = 0]
    /\ sleeps' = [sleeps EXCEPT ![c] = << >>]
    /\ result' = [result EXCEPT ![c] = None]
    /\ UNCHANGED <<envVars, creds>>
    /\ UNCHANGED <<utilVars, sheetVars>>

Next ==
    \/ Authenticate
    \/ \E t \in Threads : RefreshOrLogin(t)
    \/ \E t \in Threads : Refresh(t)
    \/ \E t \in Threads : LoginFromConfig(t)
    \/ \E t \in Threads : LoginFromFile(t)
    \/ Expire
    \/ \E c \in SingleCaller : Call(c, SessionOutcomes)
    \/ \E c \in Callers : EnsureValidAuth(c)
    \/ \E c \in Callers : Attempt(c)
    \/ \E c \in Callers : LoopExhausted(c)
    \/ \E c \in Callers : Return(c)

Spec == Init /\ [][Next]_vars

(* ------------------------------------------------------------------ *)
(* The executor alone: a session built from empty storage by the flow  *)
(* of the client-secrets file, whose credential stays valid; requests  *)
(* range over every script of outcomes.                                *)
(* ------------------------------------------------------------------ *)
\* a session built from empty storage, no execute in progress
SessionBuilt ==
    /\ token_dict = None
    /\ creds_dict = FALSE
    /\ token_path = TRUE
    /\ token_file = Some(FreshCred(TRUE))
    /\ creds = Some(FreshCred(TRUE))
    /\ pc = [t \in Threads |-> IF t = 0 THEN "built" ELSE "idle"]
    /\ refresh_calls = [t \in Threads |-> 0]
    /\ login_flows = [t \in Threads |-> IF t = 0 THEN 1 ELSE 0]
    /\ persist_attempts = [t \in Threads |-> IF t = 0 THEN 1 ELSE 0]
    /\ persist_errors = [t \in Threads |-> 0]
    /\ auth_error = [t \in Threads |-> FALSE]
    /\ max_retries = [c \in Callers |-> 0]
    /\ attempt = [c \in Callers |-> 0]
    /\ script = [c \in Callers |-> << >>]
    /\ invocations = [c \in Callers |-> 0]
    /\ sleeps = [c \in Callers |-> << >>]
    /\ result = [c \in Callers |-> None]

InitExec ==
    /\ SessionBuilt
    /\ UtilIdle
    /\ SheetIdle

NextExec ==
    \/ \E c \in SingleCaller : Call(c, Outcomes)
    \/ \E c \in Callers : EnsureValidAuth(c)
    \/ \E c \in Callers : Attempt(c)
    \/ \E c \in Callers : LoopExhausted(c)
    \/ \E c \in Callers : Return(c)

SpecExec == InitExec /\ [][NextExec]_vars

(* ------------------------------------------------------------------ *)
(* Two callers on one session: the session was built from a stored     *)
(* valid credential with a refresh token, which has since expired;     *)
(* each caller runs execute once and the steps of the two runs         *)
(* interleave freely (the class holds no lock).                        *)
(* ------------------------------------------------------------------ *)
\* the requests of these runs succeed at their first invocation
ConcOutcomes == {Returned(1)}

InitConc ==
    /\ token_dict = None
    /\ creds_dict \in BOOLEAN
    /\ token_path \in BOOLEAN
    /\ token_file = Some(FreshCred(TRUE))
    /\ creds = Some([valid |-> FALSE, expired |-> TRUE, refresh_token |-> TRUE])
    /\ pc = [t \in Threads |-> IF t = 0 THEN "built" ELSE "idle"]
    /\ refresh_calls = [t \in Threads |-> 0]
    /\ login_flows = [t \in Threads |-> 0]
    /\ persist_attempts = [t \in Threads |-> 0]
    /\ persist_errors = [t \in Threads |-> 0]
    /\ auth_error = [t \in Threads |-> FALSE]
    /\ max_retries = [c \in Callers |-> 0]
    /\ attempt = [c \in Callers |-> 0]
    /\ script = [c \in Callers |-> << >>]
    /\ invocations = [c \in Callers |-> 0]
    /\ sleeps = [c \in Callers |-> << >>]
    /\ result = [c \in Callers |-> None]
    /\ UtilIdle
    /\ SheetIdle

NextConc ==
    \/ \E c \in Callers : Call(c, ConcOutcomes)
    \/ \E c \in Callers : EnsureValidAuth(c)
    \/ \E c \in Callers : RefreshOrLogin(c)
    \/ \E c \in Callers : Refresh(c)
    \/ \E c \in Callers : LoginFromConfig(c)
    \/ \E c \in Callers : LoginFromFile(c)
    \/ \E c \in Callers : Attempt(c)
    \/ \E c \in Callers : LoopExhausted(c)

SpecConc == InitConc /\ [][NextConc]_vars

(* ================================================================== *)
(* utils.py: column letters, text ranges and grid ranges.  A Python    *)
(* string is the sequence of the code points of its characters, so     *)
(* that ord(), upper() and the regular expressions are computed as the *)
(* code computes them.                                                 *)
(* ================================================================== *)
\* longest column name that is converted
MaxColumnLen == 3

\* the code points of 'A' .. 'Z'
UpperLetters == 65 .. 90

\* every non-empty string of upper-case letters of at most n characters
ColumnNames(n) == UNION {[1 .. k -> UpperLetters] : k \in 1 .. n}

\* utils.py 7: the value of one letter, ord(c) - 64
LetterValue_ZeroBased(c) == c - 65

LetterValue(c) == c - 64

\* utils.py 6-7: the terms that the loop adds for the letters i, i+1, ... of column
\* (i counts from 1, enumerate from 0: the exponent len(column) - i - 1 of the
\* code is Len(column) - i here)
RECURSIVE ColumnTerms(_, _)
ColumnTerms(column, i) ==
    IF i > Len(column) THEN 0
    ELSE (26 ^ (Len(column) - i)) * LetterValue(column[i]) + ColumnTerms(column, i + 1)

\* utils.py 3-8
column_to_number(column) == ColumnTerms(column, 1) - 1

\* utils.py 12: the local start_index of number_to_column
column_start_index == 0

\* utils.py 15-16: int((column_int - column_start_index) / 26), of a non-negative number
Quotient(column_int) == (column_int - column_start_index) \div 26

\* utils.py 15: the code point of the letter added in the loop
CarryLetter_NoOffset(column_int) == 65 + Quotient(column_int)

CarryLetter(column_int) == 65 + Quotient(column_int) - 1

\* utils.py 14-17: the while loop and the last letter; chr() is the code point
RECURSIVE NumberLoop(_, _)
NumberLoop(column_int, letter) ==
    IF column_int > 25 + column_start_index
    THEN NumberLoop(column_int - Quotient(column_int) * 26,
                    Append(letter, CarryLetter(column_int)))
    ELSE Append(letter, 65 - column_start_index + column_int)

\* utils.py 10-18
number_to_column(column_int) == NumberLoop(column_int, << >>)

\* the index of the last column name of n letters (ZZZ for 3: 18277)
LastIndex(n) == column_to_number([i \in 1 .. n |-> 90])

\* column_to_number is called on a column name, or on what number_to_column
\* returned
ApplyColumnToNumber ==
    /\ \/ /\ util_fn = "none"
          /\ util_type = "str"
          /\ util_fn' = "column_to_number"
          /\ util_ret' = Some(column_to_number(util_arg))
       \/ /\ util_fn = "number_to_column"
          /\ util_fn' = "column_to_number(number_to_column)"
          /\ util_ret' = Some(column_to_number(util_ret[1]))
    /\ UNCHANGED <<util_type, util_arg, clientVars, sheetVars>>

\* number_to_column is called on an index, or on what column_to_number returned
ApplyNumberToColumn ==
    /\ \/ /\ util_fn = "none"
          /\ util_type = "int"
          /\ util_fn' = "number_to_column"
          /\ util_ret' = Some(number_to_column(util_arg))
       \/ /\ util_fn = "column_to_number"
          /\ util_fn' = "number_to_column(column_to_number)"
          /\ util_ret' = Some(number_to_column(util_ret[1]))
    /\ UNCHANGED <<util_type, util_arg, clientVars, sheetVars>>

\* the argument is a column name of at most MaxColumnLen letters, or the index
\* of one
InitColumn ==
    /\ SessionBuilt
    /\ SheetIdle
    /\ util_fn = "none"
    /\ \/ util_type = "str" /\ util_arg \in ColumnNames(MaxColumnLen)
       \/ util_type = "int" /\ util_arg \in 0 .. LastIndex(MaxColumnLen)
    /\ util_ret = None

NextColumn == ApplyColumnToNumber \/ ApplyNumberToColumn

SpecColumn == InitColumn /\ [][NextColumn]_vars

(* ------------------------------------------------------------------ *)
(* Text: literals, str.upper, str.strip, str.split('!')[-1] and the    *)
(* character classes of the regular expressions of utils.py            *)
(* ------------------------------------------------------------------ *)
Digits == 48 .. 57
LowerLetters == 97 .. 122
\* what str.strip() removes from both ends
Whitespace == {9, 10, 11, 12, 13, 32}
\* ord(':') and ord('!')
Colon == 58
Bang == 33

\* the code point of the one-character string ch
Ord(ch) ==
    LET upper_case == "ABCDEFGHIJKLMNOPQRSTUVWXYZ"
        lower_case == "abcdefghijklmnopqrstuvwxyz"
        digits == "0123456789"
        At(str) == {i \in 1 .. Len(str) : SubSeq(str, i, i) = ch}
    IN CASE At(upper_case) # {} -> 64 + CHOOSE i \in At(upper_case) : TRUE
         [] At(lower_case) # {} -> 96 + CHOOSE i \in At(lower_case) : TRUE
         [] At(digits) # {} -> 47 + CHOOSE i \in At(digits) : TRUE
         [] ch = ":" -> Colon
         [] ch = "!" -> Bang
         [] ch = " " -> 32
\* the text of a string literal
Text(str) == [i \in 1 .. Len(str) |-> Ord(SubSeq(str, i, i))]

\* str.upper()
upper(s) == [i \in 1 .. Len(s) |-> IF s[i] \in LowerLetters THEN s[i] - 32 ELSE s[i]]

\* str.strip()
strip(s) ==
    LET kept == {i \in 1 .. Len(s) : s[i] \notin Whitespace}
        first == CHOOSE i \in kept : \A j \in kept : i <= j
        last == CHOOSE i \in kept : \A j \in kept : j <= i
    IN IF kept = {} THEN << >> ELSE SubSeq(s, first, last)

\* s.split(sep)[-1]: what follows the last sep, or s when it holds none
SplitLast(s, sep) ==
    LET at == {i \in 1 .. Len(s) : s[i] = sep}
        last == CHOOSE i \in at : \A j \in at : j <= i
    IN IF at = {} THEN s ELSE SubSeq(s, last + 1, Len(s))

\* [A-Z]+ matches the whole of s
IsColumn(s) == s # << >> /\ \A i \in 1 .. Len(s) : s[i] \in UpperLetters
\* [1-9][0-9]* matches the whole of s
IsRow_ZeroAllowed(s) == s # << >> /\ \A i \in 1 .. Len(s) : s[i] \in Digits

IsRow(s) == s # << >> /\ s[1] \in 49 .. 57 /\ \A i \in 1 .. Len(s) : s[i] \in Digits

\* the ways [A-Z]+[1-9][0-9]* matches the whole of s, as (column, row)
Cells(s) ==
    {[col |-> SubSeq(s, 1, k), row |-> SubSeq(s, k + 1, Len(s))] :
        k \in {j \in 1 .. Len(s) - 1 :
                  IsColumn(SubSeq(s, 1, j)) /\ IsRow(SubSeq(s, j + 1, Len(s)))}}
\* the ways s is two texts joined by ':'
Halves(s) ==
    {<<SubSeq(s, 1, i - 1), SubSeq(s, i + 1, Len(s))>> :
        i \in {j \in 1 .. Len(s) : s[j] = Colon}}

\* utils.py 59-62: the group dictionaries of the matches of each pattern
MatchSingle(s) == Cells(s)
MatchFull(s) ==
    UNION {{[col1 |-> a.col, row1 |-> a.row, col2 |-> b.col, row2 |-> b.row] :
               a \in Cells(h[1]), b \in Cells(h[2])} : h \in Halves(s)}
MatchColOnly(s) ==
    {[col1 |-> h[1], col2 |-> h[2]] :
        h \in {x \in Halves(s) : IsColumn(x[1]) /\ IsColumn(x[2])}}
MatchRowOnly(s) ==
    {[row1 |-> h[1], row2 |-> h[2]] :
        h \in {x \in Halves(s) : IsRow(x[1]) /\ IsRow(x[2])}}

\* int() of a text of decimal digits
RECURSIVE int(_)
int(s) ==
    IF s = << >> THEN 0
    ELSE 10 * int(SubSeq(s, 1, Len(s) - 1)) + (s[Len(s)] - 48)

\* utils.py 50-90
validate_xrange(xrange_str) ==
    LET s == SplitLast(strip(upper(xrange_str)), Bang)
        d == CHOOSE m \in MatchFull(s) \cup MatchColOnly(s) \cup MatchRowOnly(s) : TRUE
    IN IF MatchSingle(s) # {} THEN TRUE
       ELSE IF MatchFull(s) # {}
       THEN /\ int(d.row1) <= int(d.row2)
            /\ column_to_number(d.col1) <= column_to_number(d.col2)
       ELSE IF MatchColOnly(s) # {}
       THEN column_to_number(d.col1) <= column_to_number(d.col2)
       ELSE IF MatchRowOnly(s) # {}
       THEN int(d.row1) <= int(d.row2)
       ELSE FALSE

\* re.findall of a character class with +: its maximal runs in s, in order
RECURSIVE findall(_, _)
findall(class, s) ==
    IF s = << >> THEN << >>
    ELSE IF s[1] \notin class THEN findall(class, Tail(s))
    ELSE LET k == CHOOSE j \in 1 .. Len(s) :
                      /\ \A i \in 1 .. j : s[i] \in class
                      /\ j = Len(s) \/ s[j + 1] \notin class
         IN <<SubSeq(s, 1, k)>> \o findall(class, SubSeq(s, k + 1, Len(s)))

\* the integer 0 that utils.py 25-26 appends twice to the list of matches; no
\* match is the empty text, so the empty text stands for it
IntZero == << >>

\* utils.py 29: the end column, exclusive
ExclusiveEnd_Inclusive(column) == column_to_number(column)

ExclusiveEnd(column) == column_to_number(column) + 1

\* utils.py 20-38: the function returns None, or a grid range, or column_to_number
\* raises TypeError on the integer 0 (len() of an int)
xrange_to_grid_range(xrange) ==
    LET columns == findall(UpperLetters, xrange) \o <<IntZero, IntZero>>
        lines == findall(Digits, xrange) \o <<IntZero, IntZero>>
    IN IF ~validate_xrange(xrange) THEN [raised |-> FALSE, value |-> None]
       ELSE IF columns[1] = IntZero \/ columns[2] = IntZero
       THEN [raised |-> TRUE, value |-> None]
       ELSE [raised |-> FALSE,
             value |-> Some([startRowIndex |-> int(lines[1]) - 1,
                             endRowIndex |-> int(lines[2]),
                             startColumnIndex |-> column_to_number(columns[1]),
                             endColumnIndex |-> ExclusiveEnd(columns[2])])]

(* ------------------------------------------------------------------ *)
(* Grid ranges: a dict is a function from its keys to its values       *)
(* ------------------------------------------------------------------ *)
\* utils.py 105: expected_fields
GridFields == {"startRowIndex", "endRowIndex", "startColumnIndex", "endColumnIndex"}

\* utils.py 117: isinstance(value, int)
isinstance_int(value) == value \in Int

\* utils.py 124 and 127: the start index overlaps the end index
Overlaps_Strict(start, end) == start > end

Overlaps(start, end) == start >= end

\* utils.py 92-131; a negative value is printed (120-121) and nothing else
validate_grid_range(grid_range, expect_sheet_id) ==
    LET expected_fields == GridFields \cup (IF expect_sheet_id THEN {"sheetId"} ELSE {})
    IN IF DOMAIN grid_range # expected_fields THEN FALSE
       ELSE IF \E key \in DOMAIN grid_range :
                  key # "sheetId" /\ ~isinstance_int(grid_range[key])
       THEN FALSE
       ELSE IF Overlaps(grid_range["startRowIndex"], grid_range["endRowIndex"]) THEN FALSE
       ELSE IF Overlaps(grid_range["startColumnIndex"], grid_range["endColumnIndex"])
       THEN FALSE
       ELSE TRUE

\* str() of an integer, as the f-string of utils.py 48 formats it
RECURSIVE Format(_)
Format(n) ==
    IF n < 0 THEN <<45>> \o Format(0 - n)
    ELSE IF n < 10 THEN <<48 + n>>
    ELSE Format(n \div 10) \o <<48 + (n % 10)>>

\* utils.py 41: the grid range is converted (validate_grid_range without a
\* second argument)
ConvertsGrid_FieldsOnly(grid_range) == DOMAIN grid_range = GridFields

ConvertsGrid(grid_range) == validate_grid_range(grid_range, FALSE)

\* utils.py 47: the last column, inclusive
InclusiveEnd_Exclusive(end_column) == end_column

InclusiveEnd(end_column) == end_column - 1

\* utils.py 40-48
grid_range_to_xrange(grid_range) ==
    IF ~ConvertsGrid(grid_range) THEN << >>
    ELSE LET first_row == grid_range["startRowIndex"] + 1
             second_row == grid_range["endRowIndex"]
             first_column == number_to_column(grid_range["startColumnIndex"])
             second_column == number_to_column(InclusiveEnd(grid_range["endColumnIndex"]))
         IN first_column \o Format(first_row) \o <<Colon>>
            \o second_column \o Format(second_row)

(* ------------------------------------------------------------------ *)
(* The range functions applied to one argument: a text, or a grid      *)
(* range and the flag expect_sheet_id                                  *)
(* ------------------------------------------------------------------ *)
\* longest text drawn from the alphabet, and largest index of a grid range
MaxTextLen == 5
MaxGridIndex == 2

\* characters of the texts: two letters, a lower-case letter, three digits (0
\* included), ':', '!' and the space
TextAlphabet == {65, 66, 97, 48, 49, 50, Colon, Bang, 32}
\* every text of at most n characters of the alphabet
AllTexts(n) == UNION {[1 .. k -> TextAlphabet] : k \in 0 .. n}
\* longer texts: tab prefixes, letter case, surrounding blanks, three-letter
\* columns, and the texts of tests/test_utils.py 24-36
NamedTexts ==
    {Text("Sheet1!A1:C3"), Text("Tab!A1:B2"), Text("tab!a1:b2"), Text("a1:b2"),
     Text(" A1:B2 "), Text(" Tab!A1:B2 "),
     Text("Tab! A1:B2"), Text("AAA1:AAB2"), Text("AA10:AB12"),
     Text("A:Z"), Text("Z:A"), Text("1:10"), Text("10:1"), Text("B2:A1"),
     Text("Tab!A:B"), Text("Tab!1:2"), Text("Tab!A1"), Text("Tab!B2:A1")}
Texts == AllTexts(MaxTextLen) \cup NamedTexts

\* the keys a dict argument can have: the four fields, sheetId and one more
DictKeys == GridFields \cup {"sheetId", "title"}
\* integer dicts over every set of keys, with values from -1 to MaxGridIndex
SmallGrids == UNION {[keys -> -1 .. MaxGridIndex] : keys \in SUBSET DictKeys}
\* larger grid ranges: the one of tests/test_utils.py 59-64, and one whose
\* columns have two letters
NamedGrids ==
    {[startRowIndex |-> 0, endRowIndex |-> 10, startColumnIndex |-> 0, endColumnIndex |-> 5],
     [startRowIndex |-> 9, endRowIndex |-> 12, startColumnIndex |-> 26, endColumnIndex |-> 28]}
Grids == SmallGrids \cup NamedGrids

ApplyValidateXrange ==
    /\ util_fn = "none"
    /\ util_type = "str"
    /\ util_fn' = "validate_xrange"
    /\ util_ret' = Some(validate_xrange(util_arg))
    /\ UNCHANGED <<util_type, util_arg, clientVars, sheetVars>>

ApplyXrangeToGridRange ==
    /\ util_fn = "none"
    /\ util_type = "str"
    /\ util_fn' = "xrange_to_grid_range"
    /\ util_ret' = xrange_to_grid_range(util_arg)
    /\ UNCHANGED <<util_type, util_arg, clientVars, sheetVars>>

ApplyValidateGridRange ==
    /\ util_fn = "none"
    /\ util_type = "dict"
    /\ util_fn' = "validate_grid_range"
    /\ util_ret' = Some(validate_grid_range(util_arg.grid_range, util_arg.expect_sheet_id))
    /\ UNCHANGED <<util_type, util_arg, clientVars, sheetVars>>

\* grid_range_to_xrange is called on a dict, or on what xrange_to_grid_range
\* returned: on None, grid_range.keys() raises (utils.py 109)
ApplyGridRangeToXrange ==
    /\ \/ /\ util_fn = "none"
          /\ util_type = "dict"
          /\ ~util_arg.expect_sheet_id
          /\ util_fn' = "grid_range_to_xrange"
          /\ util_ret' = [raised |-> FALSE,
                          value |-> Some(grid_range_to_xrange(util_arg.grid_range))]
       \/ /\ util_fn = "xrange_to_grid_range"
          /\ ~util_ret.raised
          /\ util_fn' = "grid_range_to_xrange(xrange_to_grid_range)"
          /\ util_ret' = IF util_ret.value = None
                         THEN [raised |-> TRUE, value |-> None]
                         ELSE [raised |-> FALSE,
                               value |-> Some(grid_range_to_xrange(util_ret.value[1]))]
    /\ UNCHANGED <<util_type, util_arg, clientVars, sheetVars>>

InitRange ==
    /\ SessionBuilt
    /\ SheetIdle
    /\ util_fn = "none"
    /\ \/ util_type = "str" /\ util_arg \in Texts
       \/ /\ util_type = "dict"
          /\ util_arg \in [grid_range : Grids, expect_sheet_id : BOOLEAN]
    /\ util_ret = None

NextRange ==
    \/ ApplyValidateXrange
    \/ ApplyXrangeToGridRange
    \/ ApplyValidateGridRange
    \/ ApplyGridRangeToXrange

SpecRange == InitRange /\ [][NextRange]_vars

(* ================================================================== *)
(* Properties of ClientWrapper.execute                                 *)
(* ================================================================== *)
\* the statuses the specification calls transient
Transient(o) == o.kind = "HttpError" /\ o.status \in {429, 500, 502, 503, 504}
\* number of transient failures at the head of a script
LeadingTransient(sc) ==
    IF \A i \in 1 .. Len(sc) : Transient(sc[i]) THEN Len(sc)
    ELSE (CHOOSE i \in 1 .. Len(sc) :
              ~Transient(sc[i]) /\ \A j \in 1 .. i - 1 : Transient(sc[j])) - 1
Done(c) == pc[c] = "done"
\* the envelope result[c] is a failure carrying the optional status code
IsFailure(c, code) ==
    /\ Truthy(result[c])
    /\ result[c][1].ok = FALSE
    /\ result[c][1].data = None
    /\ Truthy(result[c][1].error)
    /\ result[c][1].error[1].code = code

\* C1: with max_retries = N >= 1, when the remote call fails with a transient
\* status on its first k attempts, k < N, and returns on attempt k+1, execute
\* returns a success envelope carrying the payload of attempt k+1 and the remote
\* call was invoked exactly k+1 times.
C1_TransientThenSuccess ==
    \A c \in Callers :
        LET k == LeadingTransient(script[c]) IN
        (/\ Done(c)
         /\ max_retries[c] >= 1
         /\ k < max_retries[c]
         /\ script[c][k + 1].kind = "return")
        => /\ Truthy(result[c])
           /\ result[c][1].ok = TRUE
           /\ result[c][1].data = Some(script[c][k + 1].payload)
           /\ result[c][1].error = None
           /\ invocations[c] = k + 1

\* two transient failures, then success on the third of three attempts
C1_Witness ==
    \E c \in Callers :
        /\ Done(c)
        /\ max_retries[c] = 3
        /\ Transient(script[c][1]) /\ Transient(script[c][2])
        /\ script[c][3].kind = "return"
        /\ invocations[c] = 3
        /\ result[c][1].ok

\* C2: when an attempt fails with a remote-reported status outside
\* {429, 500, 502, 503, 504}, execute returns a failure envelope with that status,
\* no attempt and no sleep follows it; when it is the first attempt, the remote
\* call was invoked exactly once and execute never slept.
C2_PermanentNoRetry ==
    \A c \in Callers :
        LET k == LeadingTransient(script[c]) IN
        (/\ Done(c)
         /\ max_retries[c] >= 1
         /\ k < max_retries[c]
         /\ script[c][k + 1].kind = "HttpError")
        => /\ IsFailure(c, Some(script[c][k + 1].status))
           /\ invocations[c] = k + 1
           /\ Len(sleeps[c]) = k
           /\ (k = 0 => invocations[c] = 1 /\ sleeps[c] = << >>)

\* a permanent status on the first of three attempts
C2_Witness ==
    \E c \in Callers :
        /\ Done(c)
        /\ max_retries[c] = 3
        /\ script[c][1] = HttpError(404)
        /\ invocations[c] = 1
        /\ ~result[c][1].ok

\* C3: with max_retries = N >= 1 and a remote call that fails with a transient
\* status at each of the N attempts, execute returns a failure envelope after
\* exactly N invocations, having slept N-1 times, 2^i after failed attempt i
\* (zero-based), and not after the last attempt.
C3_AlwaysTransient ==
    \A c \in Callers :
        LET n == max_retries[c] IN
        (/\ Done(c)
         /\ n >= 1
         /\ \A i \in 1 .. n : Transient(script[c][i]))
        => /\ IsFailure(c, Some(script[c][n].status))
           /\ invocations[c] = n
           /\ sleeps[c] = [i \in 1 .. n - 1 |-> 2 ^ (i - 1)]
           /\ \A i \in 1 .. n - 2 : sleeps[c][i] < sleeps[c][i + 1]

\* three transient failures out of three attempts: slept 1 then 2
C3_Witness ==
    \E c \in Callers :
        /\ Done(c)
        /\ max_retries[c] = 3
        /\ \A i \in 1 .. 3 : Transient(script[c][i])
        /\ invocations[c] = 3
        /\ sleeps[c] = <<1, 2>>
        /\ ~result[c][1].ok

\* C4: when an attempt raises an error that is not an HttpError, execute returns
\* a failure envelope without a status code; that attempt is the last invocation
\* and no sleep follows it, even when attempts remain.
C4_UnexpectedNoRetry ==
    \A c \in Callers :
        LET k == LeadingTransient(script[c]) IN
        (/\ Done(c)
         /\ max_retries[c] >= 1
         /\ k < max_retries[c]
         /\ script[c][k + 1].kind = "Exception")
        => /\ IsFailure(c, None)
           /\ invocations[c] = k + 1
           /\ Len(sleeps[c]) = k

\* an unexpected exception on the first attempt, two attempts left in the budget
C4_Witness ==
    \E c \in Callers :
        /\ Done(c)
        /\ max_retries[c] = 3
        /\ script[c][1].kind = "Exception"
        /\ invocations[c] = 1
        /\ IsFailure(c, None)

\* C5: for every max_retries, 0 included, and every sequence of remote outcomes,
\* with a valid credential, execute returns a Response envelope: no exception
\* escapes it and the value it returns is never absent.
C5_AlwaysEnvelope ==
    \A c \in Callers :
        /\ pc[c] # "raised"
        /\ Done(c) => /\ Truthy(result[c])
                      /\ result[c][1].ok \in BOOLEAN

\* invocations made by a completed execute(max_retries = n) on script sc
ExpectedInvocations(sc, n) ==
    IF LeadingTransient(sc) >= n THEN n ELSE LeadingTransient(sc) + 1
\* steps an execute in progress can still take
Remaining(c) ==
    2 * (max_retries[c] - attempt[c])
    + (IF pc[c] = "auth" THEN 2 ELSE IF pc[c] = "loop" THEN 1 ELSE 0)
InProgress(c) == pc[c] \in {"auth", "loop"}

\* C6: for every sequence of remote outcomes, execute(max_retries = N)
\* terminates (while it runs it can always take a step, and each step lowers a
\* natural-number measure), invokes the remote call at most N times, and ends
\* having invoked it as many times as the position of the first outcome that is
\* not transient, or N times if the first N outcomes are transient.
C6_BoundedInvocations ==
    /\ [](\A c \in Callers :
            /\ invocations[c] <= max_retries[c]
            /\ Remaining(c) \in Nat
            /\ Done(c) => invocations[c] = ExpectedInvocations(script[c], max_retries[c])
            /\ InProgress(c) =>
                 ENABLED (EnsureValidAuth(c) \/ Attempt(c) \/ LoopExhausted(c)))
    /\ [][\A c \in Callers :
            InProgress(c) /\ <<pc[c], attempt[c]>>' # <<pc[c], attempt[c]>>
            => Remaining(c)' < Remaining(c)]_vars

\* three transient outcomes scripted, a budget of 2: the run ends after 2 invocations
C6_Witness ==
    \E c \in Callers :
        /\ Done(c)
        /\ max_retries[c] = 2
        /\ \A i \in 1 .. 3 : Transient(script[c][i])
        /\ invocations[c] = 2

(* ================================================================== *)
(* Properties of the pre-flight check of execute                       *)
(* ================================================================== *)
\* C7: when the credential refresh (or re-acquisition) of the pre-flight check
\* fails, execute returns a failure envelope, the remote call was invoked zero
\* times, and the failure does not leave execute as an exception.
C7_RefreshFailureIsEnvelope ==
    \A c \in Callers :
        auth_error[c] => /\ pc[c] # "raised"
                         /\ Done(c)
                         /\ Truthy(result[c])
                         /\ result[c][1].ok = FALSE
                         /\ invocations[c] = 0

\* C8: the pre-flight check on a present, valid credential is a no-op: it
\* returns at once, having made no refresh call, run no login flow and written
\* no token file, and leaves the credential as it was; so it has the same effect
\* however many times it runs in that state.
C8_ValidIsNoOp ==
    [][\A c \in Callers :
          (/\ pc[c] = "auth"
           /\ Truthy(creds) /\ creds[1].valid
           /\ pc'[c] # pc[c])
          => /\ pc'[c] = "loop"
             /\ creds' = creds
             /\ token_file' = token_file
             /\ refresh_calls'[c] = 0
             /\ login_flows'[c] = 0
             /\ persist_attempts'[c] = 0]_vars

\* the pre-flight check has returned on a valid credential, before the first attempt
C8_Witness ==
    \E c \in Callers :
        /\ pc[c] = "loop" /\ attempt[c] = 0 /\ invocations[c] = 0
        /\ max_retries[c] >= 1
        /\ Truthy(creds) /\ creds[1].valid
        /\ refresh_calls[c] = 0 /\ login_flows[c] = 0 /\ persist_attempts[c] = 0

\* the pre-flight check of caller c called _refresh_or_login and has returned
PreflightRefreshed(c) ==
    /\ pc[c] = "loop" /\ attempt[c] = 0 /\ invocations[c] = 0
    /\ refresh_calls[c] + login_flows[c] >= 1

\* C9: a pre-flight check that finds the credential expired with a refresh token
\* makes exactly one refresh call and exactly one attempt to persist the
\* refreshed credential, and runs no interactive flow.
C9_RefreshThenPersist ==
    \A c \in Callers :
        PreflightRefreshed(c) => /\ refresh_calls[c] = 1
                                 /\ persist_attempts[c] = 1
                                 /\ login_flows[c] = 0

\* C10: the pre-flight check on a credential that is not valid and has no refresh
\* token drives the re-acquisition flow: it does not go on to the first remote
\* attempt with that credential.
C10_NoRefreshTokenReacquires ==
    [][\A c \in Callers :
          (/\ pc[c] = "auth"
           /\ Truthy(creds) /\ ~creds[1].valid /\ ~creds[1].refresh_token
           /\ pc'[c] # pc[c])
          => pc'[c] = "refresh_or_login"]_vars

\* caller c is inside the check-then-refresh sequence of client.py 89-96
InCheckThenRefresh(c) ==
    pc[c] \in {"refresh_or_login", "refresh", "login_config", "login_file"}

\* C12: in every run of execute the pre-flight check completes before the first
\* remote attempt: a run starts in the pre-flight check, the remote call is not
\* invoked while the check (refresh or re-acquisition included) is in progress,
\* the retry loop is entered only out of the pre-flight check, and the remote
\* call is invoked only from inside the loop.
C12_PreflightBeforeAttempt ==
    /\ [](\A c \in Callers :
            (pc[c] = "auth" \/ InCheckThenRefresh(c)) => invocations[c] = 0)
    /\ [][\A c \in Callers :
            /\ (pc[c] = "idle" /\ pc'[c] # "idle")
               => (pc'[c] = "auth" /\ invocations'[c] = 0)
            /\ (pc[c] # "loop" /\ pc'[c] = "loop")
               => (pc[c] = "auth" \/ InCheckThenRefresh(c))
            /\ invocations'[c] > invocations[c]
               => (pc[c] = "loop" /\ invocations'[c] = invocations[c] + 1)]_vars

\* a first remote attempt made after a pre-flight check that refreshed the credential
C12_Witness ==
    \E c \in Callers :
        /\ invocations[c] = 1
        /\ refresh_calls[c] = 1
        /\ Truthy(creds) /\ creds[1].valid

(* ================================================================== *)
(* Properties of the construction of the session                       *)
(* ================================================================== *)
\* C13: when the construction of ClientWrapper completes, the session holds a
\* credential that is present and valid, whatever the storage held at the start
\* (nothing, a valid credential, an expired one with or without a refresh
\* token).
C13_BuiltIsValid ==
    [][(pc[0] # "built" /\ pc'[0] = "built")
       => (Truthy(creds') /\ creds'[1].valid /\ ~creds'[1].expired)]_vars

\* built from a stored credential that had expired and was refreshed silently
C13_Witness ==
    /\ pc[0] = "built"
    /\ token_dict = None
    /\ Truthy(token_file) /\ token_file[1].expired /\ token_file[1].refresh_token
    /\ refresh_calls[0] = 1 /\ login_flows[0] = 0
    /\ Truthy(creds) /\ creds[1].valid

\* thread t has come out of a re-acquisition that succeeded
Reacquired(t) ==
    /\ pc[t] \in {"built", "loop", "done"}
    /\ login_flows[t] >= 1
    /\ ~auth_error[t]

\* C14: every full re-acquisition by _refresh_or_login that succeeds, from the
\* client configuration of the environment or from the client-secrets file, is
\* followed by exactly one attempt to persist the new credential.
C14_ReacquireThenPersist ==
    \A t \in Threads : Reacquired(t) => persist_attempts[t] = login_flows[t]

\* C15: when the write of a newly acquired credential fails, _refresh_or_login
\* does not raise: it returns, the session holds the new, valid credential in
\* memory, the token file is as it was, and execute can be called.
C15_PersistFailureSwallowed ==
    /\ [](\A t \in Threads :
            persist_errors[t] >= 1
            => /\ ~auth_error[t] /\ pc[t] # "raised"
               /\ (t = 0 /\ pc[1] = "idle") => ENABLED Call(1, SessionOutcomes))
    /\ [][\A t \in Threads :
            persist_errors'[t] = persist_errors[t] + 1
            => /\ pc'[t] = AfterLogin(t)
               /\ Truthy(creds') /\ creds'[1].valid
               /\ token_file' = token_file]_vars

\* built after a login flow whose write of the token file failed; a call is running
C15_Witness ==
    /\ persist_errors[0] = 1
    /\ pc[0] = "built"
    /\ token_file = None
    /\ Truthy(creds) /\ creds[1].valid
    /\ pc[1] = "loop" /\ invocations[1] = 1

(* ================================================================== *)
(* Properties of a session shared by concurrent callers                *)
(* ================================================================== *)
\* caller c is past the pre-flight check of its run
PastPreflight(c) == pc[c] \in {"loop", "done"}

\* C11: when two callers run execute concurrently on one session whose
\* credential is expired with a refresh token, once both are past the pre-flight
\* check the credential was refreshed exactly once in total (one refresh call, no
\* login flow) and the token file was written at most once.
C11_RefreshedOnce ==
    (PastPreflight(1) /\ PastPreflight(2))
    => /\ refresh_calls[1] + refresh_calls[2] = 1
       /\ login_flows[1] + login_flows[2] = 0
       /\ persist_attempts[1] + persist_attempts[2] <= 1

(* ================================================================== *)
(* core.py: the operations of a Sheet.  Each runs on a session whose   *)
(* credential is valid, so that the pre-flight check of execute does   *)
(* nothing, and is one step: validation, the request, execute with its *)
(* retries, and the reshaping of the envelope.                         *)
(* ================================================================== *)
\* longest queue of prepared requests a Spreadsheet starts with
MaxQueue == 2
\* client.py 98: the max_retries of execute when the caller passes none
DefaultMaxRetries == 3

\* models.py 87, 98, 107
InputOption == {"RAW", "USER_ENTERED"}
InsertDataOption == {"INSERT_ROWS", "OVERWRITE"}
MajorDimension == {"ROWS", "COLUMNS"}

\* the reply of the remote call with payload p: 0 is an empty object, 1 an
\* object without the key 'values' (the range read holds no values), p >= 2 an
\* object whose 'values' is a grid of p-1 rows of p-1 cells
SheetPayloads == 0 .. NumPayloads
ReplyTruthy(p) == p # 0
ReplyValues(p) ==
    IF p >= 2 THEN Some([r \in 1 .. p - 1 |-> [c \in 1 .. p - 1 |-> 10 * r + c]])
    ELSE None
ReplyHasUpdates(p) == p >= 2

SheetOutcomes ==
    {Returned(p) : p \in SheetPayloads}
    \cup {HttpError(503), HttpError(404), OtherException}
\* what becomes of the request: building it raises, or it is built and its
\* execute() behaves as the script
Unbuilt == [built |-> FALSE, script |-> << >>]
RequestFates ==
    {Unbuilt}
    \cup {[built |-> TRUE, script |-> sc] : sc \in [1 .. DefaultMaxRetries -> SheetOutcomes]}

\* client.py 102-115 run to its end: the envelope returned and the invocations made
RECURSIVE RunLoop(_, _, _)
RunLoop(sc, n, att) ==
    IF ~InRange(att, n) THEN [result |-> None, invocations |-> att]
    ELSE LET o == sc[att + 1]
             d == Disposition(o, att, n)
         IN IF d = "retry" THEN RunLoop(sc, n, att + 1)
            ELSE [result |-> Some(Envelope(o, d)), invocations |-> att + 1]
\* self.client.execute(request)
Execute(sc) == RunLoop(sc, DefaultMaxRetries, 0)

\* core.py 962-967: the parameters of the call (locals()) and the keys added later
Details(call, keys) == [params |-> call, keys |-> keys]

\* what an operation does: it returns a Response or raises, after so many
\* invocations of the remote call, and leaves the queue of the Spreadsheet
Returns(response, calls, queue) ==
    [response |-> Some(response), raised |-> FALSE, calls |-> calls, queue |-> queue,
     body |-> None]
Raises(queue) ==
    [response |-> None, raised |-> TRUE, calls |-> 0, queue |-> queue, body |-> None]
\* the same outcome of a call that built a batchUpdate request of these requests
Built(out, requests) == [out EXCEPT !.body = Some(requests)]
Fails(message, function_name, details, queue) ==
    Returns(Response_fail(message, None, Some(function_name), Some(details)), 0, queue)

\* the else branches of core.py 544-547, 657-661, ...: the failure of execute is
\* passed on with the details and the name of the operation
PassFailure_DropsError(response, function_name, details) ==
    [response EXCEPT !.error = None]

PassFailure(response, function_name, details) ==
    [response EXCEPT !.error = Some([@[1] EXCEPT !.details = Some(details),
                                                !.function_name = Some(function_name)])]

\* core.py 511-520: the range argument is rejected
RangeRejected_Never(rng) == FALSE

RangeRejected(rng) == rng # << >> /\ ~validate_xrange(rng)

\* the unwrapping of a single-cell read (spec 4.4); utils.is_cell is not in src/
is_cell(text) == MatchSingle(strip(upper(text))) # {}

\* core.py 536-541: the data of a successful read
ReadData(p, rng) ==
    IF ~ReplyTruthy(p) THEN Some([type |-> "dict", value |-> p])
    ELSE IF ReplyValues(p) = None THEN None
    ELSE LET values == ReplyValues(p)[1]
         IN IF is_cell(rng) /\ Len(values[1]) = 1
            THEN Some([type |-> "cell", value |-> values[1][1]])
            ELSE Some([type |-> "list", value |-> values])

\* Sheet.get_values (core.py 468-549)
get_values(call, fate, queue) ==
    LET function_name == "Sheet.get_values"
        details == Details(call, {})
        rng == SplitLast(call.rng, Bang)
        run == Execute(fate.script)
        response == run.result[1]
    IN IF RangeRejected(call.rng)
       THEN Fails("Invalid x Range", function_name, details, queue)
       ELSE IF ~fate.built
       THEN Fails("Error while building request", function_name, details, queue)
       ELSE IF response.ok
       THEN Returns([response EXCEPT !.data = ReadData(response.data[1], rng),
                                     !.details = Some(Details(call, {"range"}))],
                    run.invocations, queue)
       ELSE Returns(PassFailure(response, function_name, details), run.invocations, queue)

\* core.py 647-656, 711-718, 773-783: the success envelope of a mutation has no
\* data; the keys derived from the reply are added when the reply is not empty
MutationData_Keep(data) == data

MutationData(data) == None

Mutated(response, call, keys) ==
    [response EXCEPT !.data = MutationData(response.data),
                     !.details = Some(Details(call, IF ReplyTruthy(response.data[1])
                                                    THEN keys ELSE {}))]

\* core.py 622, 626, 749, 752, 820: the option is not in get_args of its Literal
OptionRejected_Never(option, legal) == FALSE

OptionRejected(option, legal) == option \notin legal

\* Sheet.append_values (core.py 551-661)
append_values(call, fate, queue) ==
    LET function_name == "Sheet.append_values"
        details == Details(call, {})
        run == Execute(fate.script)
        response == run.result[1]
        keys == {"range", "table_range"}
                \cup (IF ReplyHasUpdates(response.data[1]) THEN {"updated_range"} ELSE {})
    IN IF call.values = << >>
       THEN Fails("No values to insert.", function_name, details, queue)
       ELSE IF RangeRejected(call.rng)
       THEN Fails("Invalid x Range", function_name, details, queue)
       ELSE IF OptionRejected(call.input_option, InputOption)
       THEN Fails("Arg Error: Invalid input option", function_name, details, queue)
       ELSE IF OptionRejected(call.insert_data_option, InsertDataOption)
       THEN Fails("Arg Error: Invalid insert data option", function_name, details, queue)
       ELSE IF ~fate.built
       THEN Fails("Error while building request", function_name, details, queue)
       ELSE IF response.ok
       THEN Returns(Mutated(response, call, keys), run.invocations, queue)
       ELSE Returns(PassFailure(response, function_name, details), run.invocations, queue)

\* Sheet.clear_cells (core.py 663-723); line 687 names the operation
\* 'Sheet.append_values'
clear_cells(call, fate, queue) ==
    LET function_name == "Sheet.append_values"
        details == Details(call, {})
        run == Execute(fate.script)
        response == run.result[1]
    IN IF RangeRejected(call.rng)
       THEN Fails("Invalid x Range", function_name, details, queue)
       ELSE IF ~fate.built
       THEN Fails("Error while building request", function_name, details, queue)
       ELSE IF response.ok
       THEN Returns(Mutated(response, call, {"range", "cleared_range"}),
                    run.invocations, queue)
       ELSE Returns(PassFailure(response, function_name, details), run.invocations, queue)

\* Sheet.update (core.py 725-788); the text of the request range (lines 740-744)
\* only enters the request
update(call, fate, queue) ==
    LET function_name == "Sheet.update"
        details == Details(call, {})
        run == Execute(fate.script)
        response == run.result[1]
        keys == {"range", "updated_range", "updated_cells", "updated_rows",
                 "updated_columns"}
    IN IF RangeRejected(call.rng)
       THEN Fails("Invalid x Range", function_name, details, queue)
       ELSE IF call.rng = << >>
       THEN Fails("No range specified.", function_name, details, queue)
       ELSE IF OptionRejected(call.major_dimension, MajorDimension)
       THEN Fails("Args Error: Invalid major dimension", function_name, details, queue)
       ELSE IF OptionRejected(call.value_input_option, InputOption)
       THEN Fails("Args Error: Invalid input option", function_name, details, queue)
       ELSE IF ~fate.built
       THEN Fails("Error while building request", function_name, details, queue)
       ELSE IF response.ok
       THEN Returns(Mutated(response, call, keys), run.invocations, queue)
       ELSE Returns(PassFailure(response, function_name, details), run.invocations, queue)

\* core.py 833-843 and 897-906: the requests of a batch update
AutofillRequest(grid_range, dimension, drag_distance) ==
    [kind |-> "autoFill", source |-> grid_range, dimension |-> dimension,
     fillLength |-> drag_distance, startIndex |-> 0, endIndex |-> 0]
DeleteRequest(start_index, end_index) ==
    [kind |-> "deleteDimension", source |-> None, dimension |-> "ROWS",
     fillLength |-> 0, startIndex |-> start_index, endIndex |-> end_index]

\* core.py 847-870 and 910-933: the request is queued, or sent by itself
QueueOrSend(request, call, function_name, key, fate, queue) ==
    LET details == Details(call, {key})
        run == Execute(fate.script)
        response == run.result[1]
    IN IF call.prepare
       THEN Returns(Response_success(None, Some(Details(call, {key, "prepared"}))),
                    0, Append(queue, request))
       ELSE IF ~fate.built
       THEN Fails("Error while building request", function_name, details, queue)
       ELSE IF response.ok
       THEN Built(Returns([response EXCEPT !.data = MutationData(response.data),
                                          !.details = Some(details)],
                          run.invocations, queue),
                  <<request>>)
       ELSE Built(Returns(PassFailure(response, function_name, details),
                          run.invocations, queue),
                  <<request>>)

\* Sheet.autofill_drag (core.py 812-870)
autofill_drag(call, fate, queue) ==
    LET function_name == "Sheet.autofill_drag"
        details == Details(call, {})
        source_range == SplitLast(call.source_range, Bang)
        grid_range == xrange_to_grid_range(source_range)
    IN IF call.drag_distance < 0
       THEN Fails("Invalid drag distance", function_name, details, queue)
       ELSE IF OptionRejected(call.dimension, MajorDimension)
       THEN Fails("Invalid dimension", function_name, details, queue)
       ELSE IF call.source_range = << >>
       THEN Fails("No range specified.", function_name, details, queue)
       ELSE IF grid_range.raised
       THEN Raises(queue)
       ELSE IF grid_range.value = None
       THEN Fails("Invalid range.", function_name, details, queue)
       ELSE QueueOrSend(AutofillRequest(grid_range.value, call.dimension,
                                        call.drag_distance),
                        call, function_name, "autofill_request", fate, queue)

\* core.py 894: start_row is 1-based, startIndex is 0-based
StartIndex_OneBased(start_row) == start_row

StartIndex(start_row) == start_row - 1

\* Sheet.delete_rows (core.py 872-933)
delete_rows(call, fate, queue) ==
    LET function_name == "Sheet.delete_rows"
        details == Details(call, {})
        rng == SplitLast(call.rng, Bang)
        grid_range == xrange_to_grid_range(rng)
    IN IF call.rng # << >>
       THEN IF grid_range.raised
            THEN Raises(queue)
            ELSE IF grid_range.value = None
            THEN Fails("Invalid range", function_name, details, queue)
            ELSE IF \/ grid_range.value[1].startRowIndex < 0
                    \/ grid_range.value[1].endRowIndex < 1
            THEN Fails("Invalid range", function_name, details, queue)
            ELSE QueueOrSend(DeleteRequest(grid_range.value[1].startRowIndex,
                                           grid_range.value[1].endRowIndex),
                             call, function_name, "delete_request", fate, queue)
       ELSE IF call.end_row = -1 /\ call.start_row = -1
       THEN Fails("Missing arguments", function_name, details, queue)
       ELSE IF (call.end_row < 1 \/ call.start_row < 1) \/ call.end_row < call.start_row
       THEN Fails("Invalid row ranges", function_name, details, queue)
       ELSE QueueOrSend(DeleteRequest(StartIndex(call.start_row), call.end_row),
                        call, function_name, "delete_request", fate, queue)

\* core.py 326-328: after a success the queue of the Spreadsheet
QueueAfterSuccess_Kept(queue) == queue

QueueAfterSuccess(queue) == << >>

\* Spreadsheet.execute_batch (core.py 280-334); requests of line 313 is
\* self.batch_requests and goes into the details with locals()
execute_batch(call, fate, queue) ==
    LET function_name == "Spreadsheet.execute_batch"
        requests == queue
        details == Details(call, {})
        run == Execute(fate.script)
        response == run.result[1]
    IN IF requests = << >>
       THEN Fails("No request to execute.", function_name, details, queue)
       ELSE IF ~fate.built
       THEN Fails("Error while building request", function_name, details, queue)
       ELSE IF response.ok
       THEN Built(Returns([response EXCEPT !.details = Some(details)],
                          run.invocations, QueueAfterSuccess(queue)),
                  requests)
       ELSE Built(Returns(PassFailure(response, function_name, details),
                          run.invocations, queue),
                  requests)

(* ------------------------------------------------------------------ *)
(* The arguments that callers pass                                     *)
(* ------------------------------------------------------------------ *)
\* ranges of each accepted shape, in order and reversed, with and without a tab
\* prefix, in lower case, with blanks, and texts of no accepted shape
SheetRanges ==
    {Text(""), Text("A1"), Text("A1:B2"), Text("B2:A1"), Text("A:B"), Text("B:A"),
     Text("1:2"), Text("2:1"), Text("A0"), Text("A1:"), Text("Tab!A1:B2"),
     Text("Tab!B2:A1"), Text("Tab!"), Text("a1:b2"), Text(" A1:B2 "),
     Text("Tab! A1:B2")}
ValuesArgs == {<< >>, <<<<1>>>>}
InputOptionArgs == InputOption \cup {"FORMULA"}
InsertDataOptionArgs == InsertDataOption \cup {"APPEND"}
MajorDimensionArgs == MajorDimension \cup {"DIAGONAL"}
DragArgs == {-1, 1}
RowArgs == {-1, 0, 1, 2}

\* queues that earlier prepared calls leave: delete_rows(start_row = i, end_row = i)
\* at the odd places, autofill_drag('A1:B2', i) at the even ones
PreparedQueue ==
    [i \in 1 .. MaxQueue |->
        IF i % 2 = 1 THEN DeleteRequest(i - 1, i)
        ELSE AutofillRequest(xrange_to_grid_range(Text("A1:B2")).value, "ROWS", i)]
Queues == {SubSeq(PreparedQueue, 1, k) : k \in 0 .. MaxQueue}

\* the fate of the request is drawn when the call gets as far as building it: a
\* call that returns or raises before (out is what it does when building
\* raises) does the same whatever the request would have done
FatesOf(out) ==
    IF /\ out.response # None
       /\ ~out.response[1].ok
       /\ out.response[1].error[1].message = "Error while building request"
    THEN RequestFates
    ELSE {Unbuilt}

\* the operation called as call returns or raises as out says; one operation is
\* followed from each starting queue
SheetStep(call, out) ==
    /\ sheet_call' = Some(call)
    /\ sheet_response' = out.response
    /\ sheet_raised' = out.raised
    /\ remote_calls' = out.calls
    /\ batch_requests' = out.queue
    /\ batch_body' = out.body
    /\ UNCHANGED <<clientVars, utilVars, metaVars>>

GetValues ==
    /\ sheet_call = None
    /\ \E rng \in SheetRanges :
           LET call == [op |-> "get_values", rng |-> rng]
           IN \E fate \in FatesOf(get_values(call, Unbuilt, batch_requests)) :
                  SheetStep(call, get_values(call, fate, batch_requests))

AppendValues ==
    /\ sheet_call = None
    /\ \E values \in ValuesArgs, rng \in SheetRanges, input_option \in InputOptionArgs,
          insert_data_option \in InsertDataOptionArgs :
           LET call == [op |-> "append_values", values |-> values, rng |-> rng,
                        input_option |-> input_option,
                        insert_data_option |-> insert_data_option]
           IN \E fate \in FatesOf(append_values(call, Unbuilt, batch_requests)) :
                  SheetStep(call, append_values(call, fate, batch_requests))

ClearCells ==
    /\ sheet_call = None
    /\ \E rng \in SheetRanges :
           LET call == [op |-> "clear_cells", rng |-> rng]
           IN \E fate \in FatesOf(clear_cells(call, Unbuilt, batch_requests)) :
                  SheetStep(call, clear_cells(call, fate, batch_requests))

Update ==
    /\ sheet_call = None
    /\ \E rng \in SheetRanges, value_input_option \in InputOptionArgs,
          major_dimension \in MajorDimensionArgs :
           LET call == [op |-> "update", rng |-> rng, values |-> <<<<1>>>>,
                        value_input_option |-> value_input_option,
                        major_dimension |-> major_dimension]
           IN \E fate \in FatesOf(update(call, Unbuilt, batch_requests)) :
                  SheetStep(call, update(call, fate, batch_requests))

AutofillDrag ==
    /\ sheet_call = None
    /\ \E source_range \in SheetRanges, drag_distance \in DragArgs, prepare \in BOOLEAN,
          dimension \in MajorDimensionArgs :
           LET call == [op |-> "autofill_drag", source_range |-> source_range,
                        drag_distance |-> drag_distance, prepare |-> prepare,
                        dimension |-> dimension]
           IN \E fate \in FatesOf(autofill_drag(call, Unbuilt, batch_requests)) :
                  SheetStep(call, autofill_drag(call, fate, batch_requests))

DeleteRows ==
    /\ sheet_call = None
    /\ \E rng \in SheetRanges, start_row \in RowArgs, end_row \in RowArgs,
          prepare \in BOOLEAN :
           LET call == [op |-> "delete_rows", rng |-> rng, start_row |-> start_row,
                        end_row |-> end_row, prepare |-> prepare]
           IN \E fate \in FatesOf(delete_rows(call, Unbuilt, batch_requests)) :
                  SheetStep(call, delete_rows(call, fate, batch_requests))

ExecuteBatch ==
    /\ sheet_call = None
    /\ LET call == [op |-> "execute_batch", requests |-> batch_requests]
       IN \E fate \in FatesOf(execute_batch(call, Unbuilt, batch_requests)) :
              SheetStep(call, execute_batch(call, fate, batch_requests))

InitSheet ==
    /\ SessionBuilt
    /\ UtilIdle
    /\ batch_requests \in Queues
    /\ NoSheetCall
    /\ MetaIdle

NextSheet ==
    \/ GetValues
    \/ AppendValues
    \/ ClearCells
    \/ Update
    \/ AutofillDrag
    \/ DeleteRows
    \/ ExecuteBatch

SpecSheet == InitSheet /\ [][NextSheet]_vars

(* ================================================================== *)
(* The metadata of a Spreadsheet and of its Sheets (core.py 84-278,    *)
(* 935-948)                                                            *)
(* ================================================================== *)
\* the times that dt.datetime.now() returns are 1 .. MaxClock; 0 is the
\* 1999-01-01 of core.py 90
MaxClock == 2
\* the most tabs a metadata reply lists
MaxTabs == 2

\* a dict of the reply is the record of its values and the set of the keys it
\* lacks: d[key] raises KeyError when key is in d.absent
Lacks(d, key) == key \in d.absent

TabKeys == {"properties", "title", "sheetId", "gridProperties", "rowCount", "columnCount"}
MetadataKeys == {"properties", "sheets", "title", "locale", "timeZone"}

\* the tabs of the remote spreadsheet: two titles, two ids, two heights
TabTitles == {"A", "B"}
TabIds == {1, 2}
RowCounts == {10, 20}
Tabs ==
    [title : TabTitles, sheetId : TabIds, rowCount : RowCounts,
     columnCount : {5}, absent : {{}}]
\* the remote spreadsheet keeps the titles and the ids of its tabs distinct
TabLists ==
    {tabs \in UNION {[1 .. n -> Tabs] : n \in 0 .. MaxTabs} :
        \A i, j \in DOMAIN tabs :
            i # j => tabs[i].title # tabs[j].title /\ tabs[i].sheetId # tabs[j].sheetId}
Properties ==
    {[title |-> "Book", locale |-> "en_US", timeZone |-> "Etc/GMT"],
     [title |-> "Renamed", locale |-> "pt_BR", timeZone |-> "America/Sao_Paulo"]}
\* the well-formed replies of spreadsheets().get()
WellFormedMetadata ==
    {[title |-> p.title, locale |-> p.locale, timeZone |-> p.timeZone,
      sheets |-> tabs, absent |-> {}] : p \in Properties, tabs \in TabLists}
\* the replies that list at least one tab, their tabs in the order of the ids
\* and of the lower height
ListedMetadata ==
    {m \in WellFormedMetadata :
        /\ m.sheets # << >>
        /\ \A i \in DOMAIN m.sheets :
               m.sheets[i].sheetId = i /\ m.sheets[i].rowCount = 10}
\* malformed replies: one key is missing, of the reply or of one of its tabs
MalformedMetadata ==
    {[m EXCEPT !.absent = {key}] : m \in ListedMetadata, key \in MetadataKeys}
    \cup UNION {{[m EXCEPT !.sheets[i].absent = {key}] :
                    i \in DOMAIN m.sheets, key \in TabKeys} : m \in ListedMetadata}
Metadata == WellFormedMetadata \cup MalformedMetadata

\* what the metadata request does at its 1st, 2nd and 3rd invocation: it
\* returns a reply, returns an empty object, or fails after three invocations
\* or at the first
MetadataScripts ==
    {<<Returned(1), Returned(1), Returned(1)>>,
     <<Returned(0), Returned(0), Returned(0)>>,
     <<HttpError(503), HttpError(503), HttpError(503)>>,
     <<HttpError(404), Returned(1), Returned(1)>>}

\* Spreadsheet._get_metadata (core.py 100-111)
get_metadata(sc) == Execute(sc)

\* self.sheets_info[name] = entry (core.py 150-155): a dict keeps the order in
\* which its keys were first inserted
DictSet(info, entry) ==
    IF \E i \in DOMAIN info : info[i].title = entry.title
    THEN [i \in DOMAIN info |-> IF info[i].title = entry.title THEN entry ELSE info[i]]
    ELSE Append(info, entry)

\* core.py 143-155: the loop over the tabs; it ends at the first tab that
\* lacks a key
RECURSIVE FillSheets(_, _)
FillSheets(info, tabs) ==
    IF tabs = << >> THEN [sheets_info |-> info, ok |-> TRUE]
    ELSE LET tab == Head(tabs)
         IN IF \E key \in TabKeys : Lacks(tab, key)
            THEN [sheets_info |-> info, ok |-> FALSE]
            ELSE FillSheets(DictSet(info, [title |-> tab.title, sheet_id |-> tab.sheetId,
                                           row_count |-> tab.rowCount,
                                           column_count |-> tab.columnCount]),
                            Tail(tabs))

\* Spreadsheet.build_metadata (core.py 113-161) on a non-empty reply: the
\* attributes as the method leaves them, and what it returns
build_metadata(self, metadata, now) ==
    IF Lacks(metadata, "properties") \/ Lacks(metadata, "sheets")
    THEN [spreadsheet |-> self, ret |-> FALSE]
    ELSE IF Lacks(metadata, "title")
    THEN [spreadsheet |-> self, ret |-> FALSE]
    ELSE IF Lacks(metadata, "locale")
    THEN [spreadsheet |-> [self EXCEPT !.name = metadata.title], ret |-> FALSE]
    ELSE IF Lacks(metadata, "timeZone")
    THEN [spreadsheet |-> [self EXCEPT !.name = metadata.title,
                                       !.locale = metadata.locale],
          ret |-> FALSE]
    ELSE LET filled == FillSheets(<< >>, metadata.sheets)
         IN [spreadsheet |-> [name |-> metadata.title, locale |-> metadata.locale,
                              timezone |-> metadata.timeZone, last_refreshed |-> now,
                              sheets_info |-> filled.sheets_info],
             ret |-> filled.ok]

\* Spreadsheet.refresh_metadata (core.py 163-176), and lines 94-98 of the
\* constructor: the reply is parsed when the request returned a non-empty object
refresh_metadata(self, sc, metadata, now) ==
    LET run == get_metadata(sc)
        response == run.result[1]
    IN IF response.ok /\ ReplyTruthy(response.data[1])
       THEN [spreadsheet |-> build_metadata(self, metadata, now).spreadsheet,
             ret |-> build_metadata(self, metadata, now).ret,
             calls |-> run.invocations]
       ELSE [spreadsheet |-> self, ret |-> FALSE, calls |-> run.invocations]

\* Spreadsheet.get_sheet (core.py 178-224): the Sheet made from the cached
\* metadata, or None
get_sheet(self, sheet_name) ==
    LET found == {i \in DOMAIN self.sheets_info : self.sheets_info[i].title = sheet_name}
    IN IF found = {} THEN None
       ELSE LET sheet_info == self.sheets_info[CHOOSE i \in found : TRUE]
            IN Some([name |-> sheet_name, id |-> sheet_info.sheet_id,
                     row_count |-> sheet_info.row_count,
                     column_count |-> sheet_info.column_count])

\* the first of the entries found, in the order of the dict; 0 when there is
\* none (the loops of core.py 270-273 and 938-941 break at the first match)
FirstMatch(found) ==
    IF found = {} THEN 0 ELSE CHOOSE i \in found : \A j \in found : i <= j

\* Spreadsheet.get_sheet_by_id (core.py 226-278)
get_sheet_by_id(self, id) ==
    LET at == FirstMatch({i \in DOMAIN self.sheets_info :
                             self.sheets_info[i].sheet_id = id})
    IN IF at = 0 THEN None ELSE get_sheet(self, self.sheets_info[at].title)

\* Sheet.refresh_metadata (core.py 937-948) after the refresh of the parent:
\* the Sheet takes the first entry that has its id or its name
Sheet_refresh_metadata(self, parent) ==
    LET at == FirstMatch({i \in DOMAIN parent.sheets_info :
                             \/ parent.sheets_info[i].sheet_id = self.id
                             \/ parent.sheets_info[i].title = self.name})
    IN IF at = 0 THEN self
       ELSE [name |-> parent.sheets_info[at].title,
             id |-> parent.sheets_info[at].sheet_id,
             row_count |-> parent.sheets_info[at].row_count,
             column_count |-> parent.sheets_info[at].column_count]

\* the reply is drawn when the request returned a non-empty object; a request
\* that failed or returned an empty object does the same whatever it would have been
RepliesOf(sc) ==
    LET response == get_metadata(sc).result[1]
    IN IF response.ok /\ ReplyTruthy(response.data[1]) THEN Metadata
       ELSE {CHOOSE metadata \in WellFormedMetadata : metadata.sheets = << >>}

\* names and ids that callers ask for: those of the tabs and one of no tab
SheetNameArgs == TabTitles \cup {"C"}
SheetIdArgs == TabIds \cup {3}

\* dt.datetime.now() of core.py 140: a time later than the last refresh
Now == spreadsheet.last_refreshed + 1

\* the metadata operation called as call leaves the Spreadsheet as parent and
\* the Sheet that the caller holds as held
MetaStep(call, parent, held, ret, calls) ==
    /\ sheet_call' = Some(call)
    /\ spreadsheet' = parent
    /\ sheet' = held
    /\ meta_ret' = ret
    /\ remote_calls' = calls
    /\ sheet_response' = None
    /\ sheet_raised' = FALSE
    /\ batch_body' = None
    /\ UNCHANGED <<clientVars, utilVars, batch_requests>>

RefreshMetadata ==
    /\ Now <= MaxClock
    /\ \E sc \in MetadataScripts :
           \E metadata \in RepliesOf(sc) :
               LET out == refresh_metadata(spreadsheet, sc, metadata, Now)
               IN MetaStep([op |-> "Spreadsheet.refresh_metadata"], out.spreadsheet,
                           sheet, Some(out.ret), out.calls)

GetSheet ==
    \E sheet_name \in SheetNameArgs :
        MetaStep([op |-> "get_sheet", sheet_name |-> sheet_name], spreadsheet,
                 get_sheet(spreadsheet, sheet_name), None, 0)

GetSheetById ==
    \E id \in SheetIdArgs :
        MetaStep([op |-> "get_sheet_by_id", id |-> id], spreadsheet,
                 get_sheet_by_id(spreadsheet, id), None, 0)

SheetRefreshMetadata ==
    /\ sheet # None
    /\ Now <= MaxClock
    /\ \E sc \in MetadataScripts :
           \E metadata \in RepliesOf(sc) :
               LET out == refresh_metadata(spreadsheet, sc, metadata, Now)
               IN MetaStep([op |-> "Sheet.refresh_metadata"], out.spreadsheet,
                           Some(Sheet_refresh_metadata(sheet[1], out.spreadsheet)),
                           None, out.calls)

\* the Spreadsheet right after its constructor (core.py 84-98), which requests
\* the metadata once; no Sheet was made yet
InitMeta ==
    /\ SessionBuilt
    /\ UtilIdle
    /\ batch_requests = << >>
    /\ NoSheetCall
    /\ sheet = None
    /\ meta_ret = None
    /\ \E sc \in MetadataScripts :
           \E metadata \in RepliesOf(sc) :
               spreadsheet = refresh_metadata(NoMetadata, sc, metadata, 1).spreadsheet

NextMeta ==
    \/ RefreshMetadata
    \/ GetSheet
    \/ GetSheetById
    \/ SheetRefreshMetadata

SpecMeta == InitMeta /\ [][NextMeta]_vars

(* ================================================================== *)
(* Properties of the operations of a Sheet                             *)
(* ================================================================== *)
\* the step is a call of one of the operations ops
Called(ops) == sheet_call = None /\ sheet_call' # None /\ sheet_call'[1].op \in ops
\* the operation returned a failure envelope, the remote call was not invoked
\* and the queue of the Spreadsheet is as it was
RejectedUntouched ==
    /\ ~sheet_raised'
    /\ sheet_response' # None
    /\ sheet_response'[1].ok = FALSE
    /\ sheet_response'[1].error # None
    /\ sheet_response'[1].data = None
    /\ remote_calls' = 0
    /\ batch_requests' = batch_requests
\* the range a call passes, and the text of it that the operation validates:
\* autofill_drag and delete_rows remove the tab prefix first
RangeOf(call) == IF call.op = "autofill_drag" THEN call.source_range ELSE call.rng
ValidatedText(call) ==
    IF call.op \in {"autofill_drag", "delete_rows"}
    THEN SplitLast(RangeOf(call), Bang)
    ELSE RangeOf(call)

OptionOutside(call) ==
    \/ /\ call.op = "append_values"
       /\ \/ call.input_option \notin {"RAW", "USER_ENTERED"}
          \/ call.insert_data_option \notin {"INSERT_ROWS", "OVERWRITE"}
    \/ /\ call.op = "update"
       /\ \/ call.value_input_option \notin {"RAW", "USER_ENTERED"}
          \/ call.major_dimension \notin {"ROWS", "COLUMNS"}
    \/ /\ call.op = "autofill_drag"
       /\ call.dimension \notin {"ROWS", "COLUMNS"}

\* C17: when append_values, update or autofill_drag is given an option outside
\* its closed set of legal values, it returns a failure envelope, the remote call
\* is invoked zero times and no request is queued.
C17_InvalidOptionRejected ==
    [][(/\ Called({"append_values", "update", "autofill_drag"})
        /\ OptionOutside(sheet_call'[1]))
       => RejectedUntouched]_vars

\* update('A1:B2', value_input_option = 'FORMULA') was rejected
C17_Witness ==
    /\ sheet_call # None
    /\ sheet_call[1].op = "update"
    /\ sheet_call[1].rng = Text("A1:B2")
    /\ sheet_call[1].value_input_option = "FORMULA"
    /\ sheet_call[1].major_dimension = "ROWS"
    /\ ~sheet_response[1].ok
    /\ remote_calls = 0

\* C18: every success envelope that append_values, update, clear_cells,
\* autofill_drag or delete_rows returns has no data and has details that hold
\* the parameters of the call, whatever payload the remote call returned.
C18_MutationStripsPayload ==
    (/\ sheet_call # None
     /\ sheet_call[1].op \in {"append_values", "update", "clear_cells",
                              "autofill_drag", "delete_rows"}
     /\ sheet_response # None
     /\ sheet_response[1].ok)
    => /\ sheet_response[1].data = None
       /\ sheet_response[1].error = None
       /\ sheet_response[1].details # None
       /\ sheet_response[1].details[1].params = sheet_call[1]

\* update('A1:B2') succeeded at the second invocation of the remote call
C18_Witness ==
    /\ sheet_call # None
    /\ sheet_call[1].op = "update"
    /\ sheet_call[1].rng = Text("A1:B2")
    /\ sheet_response[1].ok
    /\ remote_calls = 2
    /\ "updated_cells" \in sheet_response[1].details[1].keys

\* C19: every envelope that get_values returns has exactly one of data and
\* error: data and no error when ok, an error and no data when not ok, for
\* every payload of the remote call, a read of a range that holds no values
\* included.
C19_ExactlyOneOfDataError ==
    (/\ sheet_call # None
     /\ sheet_call[1].op = "get_values"
     /\ sheet_response # None)
    => /\ sheet_response[1].ok
          => (sheet_response[1].data # None /\ sheet_response[1].error = None)
       /\ ~sheet_response[1].ok
          => (sheet_response[1].error # None /\ sheet_response[1].data = None)

(* ================================================================== *)
(* Properties of the functions of utils.py                             *)
(* ================================================================== *)
\* the value of a numeral in bijective base 26 with the digits A = 1 .. Z = 26,
\* most significant digit first
RECURSIVE Bijective26(_)
Bijective26(s) ==
    IF s = << >> THEN 0
    ELSE 26 * Bijective26(SubSeq(s, 1, Len(s) - 1)) + (s[Len(s)] - 64)

\* C20: for every non-empty string s of the letters A-Z of at most three
\* characters, column_to_number(s) is the zero-based bijective base-26 value of
\* s (its value as a bijective base-26 numeral, minus one); A gives 0, Z 25,
\* AA 26 and AB 27.
C20_ColumnToNumber ==
    util_fn = "column_to_number"
    => /\ util_ret = Some(Bijective26(util_arg) - 1)
       /\ util_ret[1] \in Nat
       /\ (util_arg = <<65>> => util_ret = Some(0))
       /\ (util_arg = <<90>> => util_ret = Some(25))
       /\ (util_arg = <<65, 65>> => util_ret = Some(26))
       /\ (util_arg = <<65, 66>> => util_ret = Some(27))

\* column_to_number was applied to "AB" and gave 27
C20_Witness ==
    /\ util_fn = "column_to_number"
    /\ util_arg = <<65, 66>>
    /\ util_ret = Some(27)

\* C21: number_to_column(column_to_number(s)) = s for every string s of one, two
\* or three letters A-Z, three-letter columns such as AAA included, and
\* number_to_column maps 0 to A, 25 to Z, 26 to AA and 27 to AB.
C21_NameRoundTrip ==
    /\ util_fn = "number_to_column(column_to_number)" => util_ret = Some(util_arg)
    /\ util_fn = "number_to_column" =>
          /\ (util_arg = 0 => util_ret = Some(<<65>>))
          /\ (util_arg = 25 => util_ret = Some(<<90>>))
          /\ (util_arg = 26 => util_ret = Some(<<65, 65>>))
          /\ (util_arg = 27 => util_ret = Some(<<65, 66>>))

\* C22: column_to_number(number_to_column(n)) = n for every index n from 0 to
\* the index of the last three-letter column (18277).
C22_IndexRoundTrip ==
    util_fn = "column_to_number(number_to_column)" => util_ret = Some(util_arg)

\* the index 702 of the first three-letter column went through number_to_column
\* and back through column_to_number
C22_Witness ==
    /\ util_fn = "column_to_number(number_to_column)"
    /\ util_type = "int"
    /\ util_arg = 702
    /\ util_ret = Some(702)

(* ================================================================== *)
(* Properties of the range functions of utils.py                       *)
(* ================================================================== *)
\* the text is one or more letters A-Z followed by a number without leading zero
CellColumnLen(s) ==
    IF \A i \in 1 .. Len(s) : s[i] \in 65 .. 90 THEN Len(s)
    ELSE (CHOOSE i \in 1 .. Len(s) :
              s[i] \notin 65 .. 90 /\ \A j \in 1 .. i - 1 : s[j] \in 65 .. 90) - 1
OnlyLetters(s) == Len(s) >= 1 /\ CellColumnLen(s) = Len(s)
IsNumeral(s) ==
    /\ Len(s) >= 1
    /\ s[1] \in 49 .. 57
    /\ \A i \in 2 .. Len(s) : s[i] \in 48 .. 57
CellColumn(s) == SubSeq(s, 1, CellColumnLen(s))
CellRow(s) == SubSeq(s, CellColumnLen(s) + 1, Len(s))
IsCellText(s) == CellColumnLen(s) >= 1 /\ IsNumeral(CellRow(s))
\* the value of a numeral
RECURSIVE Decimal(_)
Decimal(s) ==
    IF s = << >> THEN 0 ELSE 10 * Decimal(SubSeq(s, 1, Len(s) - 1)) + s[Len(s)] - 48
ColumnIndex(s) == Bijective26(s) - 1
\* the two sides of a text with exactly one ':'
ColonAt(s) == {i \in 1 .. Len(s) : s[i] = 58}
LeftOf(s) == SubSeq(s, 1, (CHOOSE i \in ColonAt(s) : TRUE) - 1)
RightOf(s) == SubSeq(s, (CHOOSE i \in ColonAt(s) : TRUE) + 1, Len(s))
\* the four shapes, with the first endpoint not after the second
IsSingleCell(s) == ColonAt(s) = {} /\ IsCellText(s)
IsFullRectangle(s) ==
    /\ Cardinality(ColonAt(s)) = 1
    /\ IsCellText(LeftOf(s)) /\ IsCellText(RightOf(s))
    /\ Decimal(CellRow(LeftOf(s))) <= Decimal(CellRow(RightOf(s)))
    /\ ColumnIndex(CellColumn(LeftOf(s))) <= ColumnIndex(CellColumn(RightOf(s)))
IsColumnRange(s) ==
    /\ Cardinality(ColonAt(s)) = 1
    /\ OnlyLetters(LeftOf(s)) /\ OnlyLetters(RightOf(s))
    /\ ColumnIndex(LeftOf(s)) <= ColumnIndex(RightOf(s))
IsRowRange(s) ==
    /\ Cardinality(ColonAt(s)) = 1
    /\ IsNumeral(LeftOf(s)) /\ IsNumeral(RightOf(s))
    /\ Decimal(LeftOf(s)) <= Decimal(RightOf(s))
IsRangeText(s) ==
    IsSingleCell(s) \/ IsFullRectangle(s) \/ IsColumnRange(s) \/ IsRowRange(s)
\* the text in upper case, without its tab prefix
PrefixStripped(r) ==
    LET u == [i \in 1 .. Len(r) |-> IF r[i] \in 97 .. 122 THEN r[i] - 32 ELSE r[i]]
        bangs == {i \in 1 .. Len(u) : u[i] = 33}
    IN IF bangs = {} THEN u
       ELSE SubSeq(u, (CHOOSE i \in bangs : \A j \in bangs : j <= i) + 1, Len(u))
\* the same after the blanks around the whole text are removed
TrimmedPrefixStripped(r) == PrefixStripped(strip(r))

\* C23: for every valid full-rectangle text range r, with or without a tab
\* prefix and in any letter case, xrange_to_grid_range(r) is a grid range and
\* grid_range_to_xrange of it is r in upper case without its prefix.
C23_TextRoundTrip ==
    (util_type = "str" /\ IsFullRectangle(PrefixStripped(util_arg)))
    => /\ util_fn = "xrange_to_grid_range" =>
             ~util_ret.raised /\ util_ret.value # None
       /\ util_fn = "grid_range_to_xrange(xrange_to_grid_range)" =>
             util_ret = [raised |-> FALSE, value |-> Some(PrefixStripped(util_arg))]

\* C24: validate_xrange(text) returns true exactly when the text, in upper case
\* and without its tab prefix, is a single cell, or a full rectangle, a
\* column-only or a row-only range whose first endpoint does not exceed the
\* second on every axis it constrains; it returns false for every other text.
C24_ValidateXrange ==
    util_fn = "validate_xrange"
    => util_ret = Some(IsRangeText(PrefixStripped(util_arg)))

\* C24, amended: the same, for the text after the blanks around it are removed
\* (blanks that follow the tab prefix stay, and make the text invalid).
C24_ValidateXrangeTrimmed ==
    util_fn = "validate_xrange"
    => util_ret = Some(IsRangeText(TrimmedPrefixStripped(util_arg)))

\* validate_xrange accepted a tab-prefixed range written with blanks around it
C24_Witness ==
    /\ util_fn = "validate_xrange"
    /\ util_arg = Text(" Tab!A1:B2 ")
    /\ util_ret = Some(TRUE)

\* C25: for every valid full-rectangle text range C1R1:C2R2 in upper case and
\* without prefix, xrange_to_grid_range returns startRowIndex = R1 - 1,
\* endRowIndex = R2, startColumnIndex = the index of C1 and endColumnIndex = the
\* index of C2 plus one; A1:B2 gives rows 0..2 and columns 0..2.
C25_GridOfFullRectangle ==
    (util_fn = "xrange_to_grid_range" /\ IsFullRectangle(util_arg))
    => /\ util_ret =
            [raised |-> FALSE,
             value |-> Some([startRowIndex |-> Decimal(CellRow(LeftOf(util_arg))) - 1,
                             endRowIndex |-> Decimal(CellRow(RightOf(util_arg))),
                             startColumnIndex |-> ColumnIndex(CellColumn(LeftOf(util_arg))),
                             endColumnIndex |->
                                 ColumnIndex(CellColumn(RightOf(util_arg))) + 1])]
       /\ util_arg = <<65, 49, 58, 66, 50>> =>
             util_ret.value = Some([startRowIndex |-> 0, endRowIndex |-> 2,
                                    startColumnIndex |-> 0, endColumnIndex |-> 2])

\* xrange_to_grid_range was applied to AA10:AB12 and gave rows 9..12 and
\* columns 26..28
C25_Witness ==
    /\ util_fn = "xrange_to_grid_range"
    /\ util_arg = Text("AA10:AB12")
    /\ util_ret.value = Some([startRowIndex |-> 9, endRowIndex |-> 12,
                              startColumnIndex |-> 26, endColumnIndex |-> 28])

\* the four indices of a grid range
GridIndices(grid_range) ==
    {grid_range[key] : key \in DOMAIN grid_range \cap
        {"startRowIndex", "endRowIndex", "startColumnIndex", "endColumnIndex"}}

\* C26: for every text range that validate_xrange accepts, of each of the four
\* shapes, xrange_to_grid_range returns a grid range without raising, and every
\* index of that grid range is non-negative.
C26_EveryShapeConverts ==
    (util_fn = "xrange_to_grid_range" /\ validate_xrange(util_arg))
    => /\ ~util_ret.raised
       /\ util_ret.value # None
       /\ \A index \in GridIndices(util_ret.value[1]) : index >= 0

\* C27: xrange_to_grid_range gives the same grid range for a valid text range r,
\* for r after a tab prefix and for r in lower case.
C27_PrefixAndCaseIgnored ==
    (/\ util_fn = "xrange_to_grid_range"
     /\ validate_xrange(util_arg)
     /\ ~xrange_to_grid_range(TrimmedPrefixStripped(util_arg)).raised)
    => util_ret = xrange_to_grid_range(TrimmedPrefixStripped(util_arg))

\* C28: xrange_to_grid_range returns None for every text that validate_xrange
\* rejects, and grid_range_to_xrange returns the empty string for every grid
\* range that validate_grid_range rejects.
C28_InvalidInputFails ==
    /\ (util_fn = "xrange_to_grid_range" /\ ~validate_xrange(util_arg))
       => util_ret = [raised |-> FALSE, value |-> None]
    /\ (util_fn = "grid_range_to_xrange"
        /\ ~validate_grid_range(util_arg.grid_range, FALSE))
       => util_ret = [raised |-> FALSE, value |-> Some(<< >>)]

\* grid_range_to_xrange was applied to a grid range of the four fields whose
\* rows are inverted, and returned the empty string
C28_Witness ==
    /\ util_fn = "grid_range_to_xrange"
    /\ util_arg.grid_range = [startRowIndex |-> 2, endRowIndex |-> 1,
                              startColumnIndex |-> 0, endColumnIndex |-> 1]
    /\ util_ret.value = Some(<< >>)

\* the fields validate_grid_range expects
ExpectedKeys(expect_sheet_id) ==
    {"startRowIndex", "endRowIndex", "startColumnIndex", "endColumnIndex"}
    \cup (IF expect_sheet_id THEN {"sheetId"} ELSE {})
\* start >= end on the axis, for a grid range that has both fields
StartNotBeforeEnd(grid_range, start, end) ==
    /\ {start, end} \subseteq DOMAIN grid_range
    /\ grid_range[start] >= grid_range[end]

\* C29: validate_grid_range(grid, expect_sheet_id) returns false whenever
\* startRowIndex >= endRowIndex, whenever startColumnIndex >= endColumnIndex,
\* and whenever the fields are not exactly the four indices, plus sheetId if and
\* only if expect_sheet_id is true.
C29_GridRangeRejected ==
    (/\ util_fn = "validate_grid_range"
     /\ \/ StartNotBeforeEnd(util_arg.grid_range, "startRowIndex", "endRowIndex")
        \/ StartNotBeforeEnd(util_arg.grid_range, "startColumnIndex", "endColumnIndex")
        \/ DOMAIN util_arg.grid_range # ExpectedKeys(util_arg.expect_sheet_id))
    => util_ret = Some(FALSE)

\* validate_grid_range rejected a grid range of the right fields whose start row
\* equals its end row
C29_Witness ==
    /\ util_fn = "validate_grid_range"
    /\ util_arg = [grid_range |-> [startRowIndex |-> 1, endRowIndex |-> 1,
                                   startColumnIndex |-> 0, endColumnIndex |-> 1],
                   expect_sheet_id |-> FALSE]
    /\ util_ret = Some(FALSE)

\* C30: validate_grid_range returns false for every grid range in which one of
\* the four indices is negative, also when start < end holds on both axes.
C30_NegativeIndexRejected ==
    (/\ util_fn = "validate_grid_range"
     /\ \E index \in GridIndices(util_arg.grid_range) : index < 0)
    => util_ret = Some(FALSE)

\* the decimal numeral of a natural number
RECURSIVE Numeral(_)
Numeral(n) == IF n < 10 THEN <<48 + n>> ELSE Append(Numeral(n \div 10), 48 + (n % 10))

\* C31: for every grid range that validate_grid_range accepts,
\* grid_range_to_xrange returns the text C1 R1 ':' C2 R2 with R1 =
\* startRowIndex + 1, R2 = endRowIndex, C1 = number_to_column(startColumnIndex)
\* and C2 = number_to_column(endColumnIndex - 1); rows 0..10 and columns 0..5
\* give A1:E10.
C31_TextOfGridRange ==
    (util_fn = "grid_range_to_xrange"
     /\ validate_grid_range(util_arg.grid_range, FALSE))
    => LET g == util_arg.grid_range IN
       /\ util_ret.raised = FALSE
       /\ util_ret.value =
             Some(number_to_column(g["startColumnIndex"])
                  \o Numeral(g["startRowIndex"] + 1)
                  \o <<58>>
                  \o number_to_column(g["endColumnIndex"] - 1)
                  \o Numeral(g["endRowIndex"]))
       /\ g = [startRowIndex |-> 0, endRowIndex |-> 10,
               startColumnIndex |-> 0, endColumnIndex |-> 5]
          => util_ret.value = Some(<<65, 49, 58, 69, 49, 48>>)

\* grid_range_to_xrange was applied to rows 0..10 and columns 0..5 and returned
\* A1:E10
C31_Witness ==
    /\ util_fn = "grid_range_to_xrange"
    /\ util_arg.grid_range = [startRowIndex |-> 0, endRowIndex |-> 10,
                              startColumnIndex |-> 0, endColumnIndex |-> 5]
    /\ util_ret.value = Some(<<65, 49, 58, 69, 49, 48>>)

(* ================================================================== *)
(* Properties of the queue of prepared requests                        *)
(* ================================================================== *)
\* the operation whose outcome the state holds is one of ops
Ran(ops) == sheet_call # None /\ sheet_call[1].op \in ops
\* the envelope it returned is a success
ReturnedOk == sheet_response # None /\ sheet_response[1].ok
\* the queue as it was when the operation was called
QueueBefore == sheet_call[1].requests

\* C32: Spreadsheet.execute_batch sends all the requests pending in
\* batch_requests, in the order they were queued, in one request; after it the
\* queue is empty if and only if the envelope returned is ok: on success the
\* queue is cleared, on a failure it is left exactly as it was.
C32_BatchQueue ==
    Ran({"execute_batch"})
    => /\ ~sheet_raised
       /\ batch_body # None => batch_body = Some(QueueBefore)
       /\ remote_calls > 0 => batch_body = Some(QueueBefore)
       /\ (batch_requests = << >>) <=> ReturnedOk
       /\ ~ReturnedOk => batch_requests = QueueBefore

\* C32, amended: the same for a queue that holds at least one request; with an
\* empty queue execute_batch returns a failure envelope, builds no request,
\* makes no remote call and the queue stays empty.
C32_BatchQueueNonEmpty ==
    Ran({"execute_batch"})
    => /\ ~sheet_raised
       /\ sheet_response # None
       /\ batch_body # None => batch_body = Some(QueueBefore)
       /\ remote_calls > 0 => batch_body = Some(QueueBefore)
       /\ remote_calls <= DefaultMaxRetries
       /\ ReturnedOk => batch_requests = << >> /\ remote_calls >= 1
       /\ ~ReturnedOk => batch_requests = QueueBefore
       /\ QueueBefore # << >> => ((batch_requests = << >>) <=> ReturnedOk)
       /\ QueueBefore = << >> =>
             /\ ~ReturnedOk
             /\ batch_body = None
             /\ remote_calls = 0

\* execute_batch sent a queue of two requests after one transient failure, got a
\* success and left the queue empty
C32_Witness ==
    /\ Ran({"execute_batch"})
    /\ Len(QueueBefore) = 2
    /\ batch_body = Some(QueueBefore)
    /\ remote_calls = 2
    /\ ReturnedOk
    /\ batch_requests = << >>

\* the arguments of a prepared call are valid: a drag distance that is not
\* negative, a legal dimension and a range that validate_xrange accepts for
\* autofill_drag; such a range, or no range and 1 <= start_row <= end_row, for
\* delete_rows
ValidArguments(call) ==
    IF call.op = "autofill_drag"
    THEN /\ call.drag_distance >= 0
         /\ call.dimension \in {"ROWS", "COLUMNS"}
         /\ call.source_range # << >>
         /\ validate_xrange(ValidatedText(call))
    ELSE \/ call.rng # << >> /\ validate_xrange(ValidatedText(call))
         \/ call.rng = << >> /\ 1 <= call.start_row /\ call.start_row <= call.end_row

\* C33: autofill_drag and delete_rows called with prepare=True and valid
\* arguments invoke the remote call zero times, append exactly one request to
\* the tail of batch_requests, leaving the requests already queued unchanged and
\* in order, and return a success envelope; with prepare=False they never
\* change batch_requests.
C33_PreparedQueuesOne ==
    [][Called({"autofill_drag", "delete_rows"})
       => /\ (sheet_call'[1].prepare /\ ValidArguments(sheet_call'[1]))
             => /\ ~sheet_raised'
                /\ sheet_response' # None
                /\ sheet_response'[1].ok
                /\ remote_calls' = 0
                /\ Len(batch_requests') = Len(batch_requests) + 1
                /\ SubSeq(batch_requests', 1, Len(batch_requests)) = batch_requests
          /\ ~sheet_call'[1].prepare => batch_requests' = batch_requests]_vars

\* C34: delete_rows called without a range builds the delete request with
\* startIndex = start_row - 1 and endIndex = end_row when 1 <= start_row <=
\* end_row: prepared, it is the request appended to the queue, sent, it is the
\* only request of the batch update; when start_row < 1, end_row < 1, end_row <
\* start_row or neither is given, it returns a failure envelope, the remote call
\* is invoked zero times and nothing is queued.
C34_DeleteRowsIndices ==
    [][(Called({"delete_rows"}) /\ sheet_call'[1].rng = << >>)
       => LET start_row == sheet_call'[1].start_row
              end_row == sheet_call'[1].end_row
              expected == [kind |-> "deleteDimension", source |-> None,
                           dimension |-> "ROWS", fillLength |-> 0,
                           startIndex |-> start_row - 1, endIndex |-> end_row]
              built == ~(/\ ~sheet_response'[1].ok
                         /\ sheet_response'[1].error[1].message
                                = "Error while building request")
          IN IF 1 <= start_row /\ start_row <= end_row
             THEN /\ ~sheet_raised'
                  /\ sheet_response' # None
                  /\ sheet_call'[1].prepare
                        => /\ batch_requests' = Append(batch_requests, expected)
                           /\ batch_body' = None
                           /\ remote_calls' = 0
                  /\ ~sheet_call'[1].prepare
                        => /\ batch_requests' = batch_requests
                           /\ built => batch_body' = Some(<<expected>>)
                           /\ built => remote_calls' >= 1
                           /\ ~built => batch_body' = None
             ELSE RejectedUntouched /\ batch_body' = None]_vars

\* delete_rows(start_row = 1, end_row = 2) sent the request of the rows 0 .. 2
\* by itself and the remote call succeeded at once
C34_Witness ==
    /\ Ran({"delete_rows"})
    /\ sheet_call[1].rng = << >>
    /\ sheet_call[1].start_row = 1
    /\ sheet_call[1].end_row = 2
    /\ ~sheet_call[1].prepare
    /\ batch_body # None
    /\ batch_body[1][1].startIndex = 0
    /\ batch_body[1][1].endIndex = 2
    /\ remote_calls = 1
    /\ ReturnedOk

\* C35: for every range text passed to delete_rows(rng=...) or
\* autofill_drag(source_range=...), invalid or valid in any of the accepted
\* shapes and in any letter case, the operation returns an envelope and no
\* exception escapes to the caller.
C35_RangeNeverRaises ==
    (Ran({"delete_rows", "autofill_drag"}) /\ RangeOf(sheet_call[1]) # << >>)
    => (~sheet_raised /\ sheet_response # None)

\* ok and error exclude each other, and a failure carries no data
WellFormed(response) ==
    /\ response.ok <=> response.error = None
    /\ ~response.ok => response.data = None

\* C36: every envelope that an operation returns has ok true if and only if the
\* error is absent, and has no data whenever ok is false; the reshaping done
\* after execute (data replaced, details attached, the failure labelled) never
\* breaks this.
C36_EnvelopeInvariant ==
    /\ sheet_response # None => WellFormed(sheet_response[1])
    /\ \A c \in DOMAIN result : result[c] # None => WellFormed(result[c][1])

\* update('A1:B2') passed on the failure of a remote call that was invoked three
\* times, with the details of the call attached to the error
C36_Witness ==
    /\ Ran({"update"})
    /\ sheet_call[1].rng = Text("A1:B2")
    /\ sheet_response # None
    /\ ~sheet_response[1].ok
    /\ sheet_response[1].error # None
    /\ sheet_response[1].error[1].details # None
    /\ sheet_response[1].error[1].code = Some(503)
    /\ remote_calls = 3

\* the name under which the operation that the caller invoked reports
OperationName(call) ==
    IF call.op = "execute_batch" THEN "Spreadsheet.execute_batch"
    ELSE IF call.op = "get_values" THEN "Sheet.get_values"
    ELSE IF call.op = "append_values" THEN "Sheet.append_values"
    ELSE IF call.op = "clear_cells" THEN "Sheet.clear_cells"
    ELSE IF call.op = "update" THEN "Sheet.update"
    ELSE IF call.op = "autofill_drag" THEN "Sheet.autofill_drag"
    ELSE "Sheet.delete_rows"

\* C39: whenever an operation returns a failure envelope whose
\* error.function_name is set, that name identifies the operation the caller
\* invoked; in particular every failure of clear_cells is labelled as coming
\* from clear_cells.
C39_FailureNamesOperation ==
    (/\ sheet_call # None
     /\ sheet_response # None
     /\ ~sheet_response[1].ok
     /\ sheet_response[1].error # None
     /\ sheet_response[1].error[1].function_name # None)
    => sheet_response[1].error[1].function_name = Some(OperationName(sheet_call[1]))

(* ================================================================== *)
(* Properties of the metadata of a Spreadsheet and of its Sheets       *)
(* ================================================================== *)
\* the step is a call of the metadata operation op
MetaCalled(op) == sheet_call' # None /\ sheet_call'[1].op = op

\* C37: whenever Spreadsheet.refresh_metadata returns False, because the
\* metadata request failed or because build_metadata failed part-way on
\* malformed metadata, the cached name, locale, timezone, last_refreshed and
\* sheets_info of the Spreadsheet are exactly what they were before the call.
C37_FailedRefreshKeepsCache ==
    [][(MetaCalled("Spreadsheet.refresh_metadata") /\ meta_ret' = Some(FALSE))
       => spreadsheet' = spreadsheet]_vars

\* the entries of the refreshed metadata that have the id of the Sheet
WithIdOf(self, info) == {i \in DOMAIN info : info[i].sheet_id = self.id}

\* C38: Sheet.refresh_metadata never rebinds a Sheet to the id of another tab:
\* whenever the refreshed metadata still contains a tab with the id of the
\* Sheet, the Sheet keeps that id and takes the title, the row count and the
\* column count of that tab, also when the tab was renamed and another tab now
\* carries the old name of the Sheet.
C38_SheetKeepsId ==
    [][(/\ MetaCalled("Sheet.refresh_metadata")
        /\ sheet # None
        /\ WithIdOf(sheet[1], spreadsheet'.sheets_info) # {})
       => \E i \in WithIdOf(sheet[1], spreadsheet'.sheets_info) :
              /\ sheet'[1].id = sheet[1].id
              /\ sheet'[1].name = spreadsheet'.sheets_info[i].title
              /\ sheet'[1].row_count = spreadsheet'.sheets_info[i].row_count
              /\ sheet'[1].column_count = spreadsheet'.sheets_info[i].column_count]_vars

====
